---- MODULE Spec2Model ----
(***************************************************************************)
(* A model of upgear's update pipeline, src/src/index.ts: checkAndUpdate   *)
(* and the helpers it calls, one action per step of the pipeline.         *)
(*                                                                         *)
(* Optional values (an option that may be omitted, a JSON field that may   *)
(* be missing) are sets of at most one element: {} is undefined.           *)
(* Debug-level log lines are not modelled; info and warn lines are.        *)
(***************************************************************************)
EXTENDS Integers, Sequences, FiniteSets, TLC

\* ------------------------------------------------------------------------
\* Bounds of the model
\* ------------------------------------------------------------------------

\* The clock (Date.now()) runs from 1 to MaxTime.
MaxTime == 4
\* The number of I/O operations that fail in one invocation.
MaxFaults == 1

\* ------------------------------------------------------------------------
\* Optional values
\* ------------------------------------------------------------------------

\* a ?? d
Coalesce(x, d) == IF x = {} THEN d ELSE CHOOSE v \in x : TRUE

\* the value of an optional value known to be present
The(x) == CHOOSE v \in x : TRUE

\* ------------------------------------------------------------------------
\* Version strings and the semver library (semver.valid, semver.gt)
\*
\* A version string is the sequence of its lexical tokens: numbers,
\* alphanumeric identifiers, ".", "-", "+" and a leading "v".
\* ------------------------------------------------------------------------

Num(n) == [t |-> "num", n |-> n, s |-> ""]
\* a numeric token written with a leading zero, such as 01
Num0(n) == [t |-> "num0", n |-> n, s |-> ""]
Id(s) == [t |-> "id", n |-> 0, s |-> s]
Dot == [t |-> "dot", n |-> 0, s |-> ""]
Dash == [t |-> "dash", n |-> 0, s |-> ""]
Plus == [t |-> "plus", n |-> 0, s |-> ""]
LetterV == [t |-> "v", n |-> 0, s |-> ""]

\* the ASCII order of the alphanumeric identifiers the model uses
IdRank(s) ==
  CASE s = "alpha" -> 1
    [] s = "beta" -> 2
    [] s = "rc" -> 3
    [] OTHER -> 4

\* index of the first token of type ty in text, 0 when there is none
FirstIndex(text, ty) ==
  IF \E i \in 1..Len(text) : text[i].t = ty
  THEN CHOOSE i \in 1..Len(text) :
         text[i].t = ty /\ \A j \in 1..(i - 1) : text[j].t # ty
  ELSE 0

\* a dot-separated list of identifiers: odd positions hold identifiers
\* (numbers without a leading zero, or alphanumerics), even positions dots
IsIdList(text) ==
  /\ Len(text) % 2 = 1
  /\ \A i \in 1..Len(text) :
       IF i % 2 = 1 THEN text[i].t \in {"num", "id"} ELSE text[i].t = "dot"

\* like IsIdList, for build metadata, where leading zeros are allowed
IsBuildList(text) ==
  /\ Len(text) % 2 = 1
  /\ \A i \in 1..Len(text) :
       IF i % 2 = 1 THEN text[i].t \in {"num", "num0", "id"}
       ELSE text[i].t = "dot"

\* the identifiers of a dot-separated list
Identifiers(text) == [i \in 1..((Len(text) + 1) \div 2) |-> text[2 * i - 1]]

NoVersion == [valid |-> FALSE, major |-> 0, minor |-> 0, patch |-> 0, pre |-> <<>>]

\* new SemVer(version) in strict mode: v? MAJOR.MINOR.PATCH (-PRE)? (+BUILD)?
SemverParse(text) ==
  LET body == IF Len(text) > 0 /\ text[1].t = "v" THEN Tail(text) ELSE text
      plusAt == FirstIndex(body, "plus")
      noBuild == IF plusAt = 0 THEN body ELSE SubSeq(body, 1, plusAt - 1)
      build == IF plusAt = 0 THEN <<>> ELSE SubSeq(body, plusAt + 1, Len(body))
      dashAt == FirstIndex(noBuild, "dash")
      main == IF dashAt = 0 THEN noBuild ELSE SubSeq(noBuild, 1, dashAt - 1)
      pre == IF dashAt = 0 THEN <<>> ELSE SubSeq(noBuild, dashAt + 1, Len(noBuild))
      mainOk == /\ Len(main) = 5
                /\ main[1].t = "num" /\ main[2].t = "dot" /\ main[3].t = "num"
                /\ main[4].t = "dot" /\ main[5].t = "num"
      preOk == dashAt = 0 \/ IsIdList(pre)
      buildOk == plusAt = 0 \/ IsBuildList(build)
  IN IF mainOk /\ preOk /\ buildOk
     THEN [valid |-> TRUE, major |-> main[1].n, minor |-> main[3].n,
           patch |-> main[5].n,
           pre |-> IF dashAt = 0 THEN <<>> ELSE Identifiers(pre)]
     ELSE NoVersion

\* semver.valid(version): truthy exactly when the string parses
SemverValid(text) == SemverParse(text).valid

\* compareIdentifiers(a, b) of the semver library: -1, 0 or 1
CompareIdentifiers(a, b) ==
  IF a.t = "num" /\ b.t = "num"
  THEN (IF a.n = b.n THEN 0 ELSE IF a.n < b.n THEN -1 ELSE 1)
  ELSE IF a.t = "num" THEN -1
  ELSE IF b.t = "num" THEN 1
  ELSE IF a.s = b.s THEN 0
  ELSE IF IdRank(a.s) < IdRank(b.s) THEN -1 ELSE 1

CompareNumbers(a, b) == IF a = b THEN 0 ELSE IF a < b THEN -1 ELSE 1

\* SemVer.compareMain
CompareMain(a, b) ==
  IF CompareNumbers(a.major, b.major) # 0 THEN CompareNumbers(a.major, b.major)
  ELSE IF CompareNumbers(a.minor, b.minor) # 0
  THEN CompareNumbers(a.minor, b.minor)
  ELSE CompareNumbers(a.patch, b.patch)

\* the loop of SemVer.comparePre from index i on
RECURSIVE ComparePreFrom(_, _, _)
ComparePreFrom(a, b, i) ==
  IF i > Len(a) /\ i > Len(b) THEN 0
  ELSE IF i > Len(b) THEN 1
  ELSE IF i > Len(a) THEN -1
  ELSE IF a[i] = b[i] THEN ComparePreFrom(a, b, i + 1)
  ELSE CompareIdentifiers(a[i], b[i])

\* SemVer.comparePre
ComparePre(a, b) ==
  IF Len(a.pre) > 0 /\ Len(b.pre) = 0 THEN -1
  ELSE IF Len(a.pre) = 0 /\ Len(b.pre) > 0 THEN 1
  ELSE IF Len(a.pre) = 0 /\ Len(b.pre) = 0 THEN 0
  ELSE ComparePreFrom(a.pre, b.pre, 1)

\* SemVer.compare
SemverCompare(a, b) ==
  IF CompareMain(a, b) # 0 THEN CompareMain(a, b) ELSE ComparePre(a, b)

\* semver.gt(a, b) on two valid version strings
SemverGt(a, b) == SemverCompare(SemverParse(a), SemverParse(b)) > 0

\* isUpdateNeeded(currentVersion, latestVersion, logger) with >= for >
IsUpdateNeededGte(currentVersion, latestVersion) ==
  IF ~SemverValid(currentVersion) \/ ~SemverValid(latestVersion)
  THEN FALSE
  ELSE SemverCompare(SemverParse(latestVersion), SemverParse(currentVersion)) >= 0

\* isUpdateNeeded(currentVersion, latestVersion, logger)
IsUpdateNeeded(currentVersion, latestVersion) ==
  IF ~SemverValid(currentVersion) \/ ~SemverValid(latestVersion)
  THEN FALSE
  ELSE SemverGt(latestVersion, currentVersion)

\* The version strings of the model
V_1_0_0 == <<Num(1), Dot, Num(0), Dot, Num(0)>>
V_1_1_0 == <<Num(1), Dot, Num(1), Dot, Num(0)>>
V_0_9_9 == <<Num(0), Dot, Num(9), Dot, Num(9)>>
V_2_0_0 == <<Num(2), Dot, Num(0), Dot, Num(0)>>
V_1_1_0_alpha == V_1_1_0 \o <<Dash, Id("alpha")>>
V_1_1_0_beta == V_1_1_0 \o <<Dash, Id("beta")>>
V_1_1_0_beta_1 == V_1_1_0 \o <<Dash, Id("beta"), Dot, Num(1)>>
V_1_1_0_beta_2 == V_1_1_0 \o <<Dash, Id("beta"), Dot, Num(2)>>
V_1_1_0_num == V_1_1_0 \o <<Dash, Num(1)>>
V_1_1_0_build == V_1_1_0 \o <<Plus, Id("build")>>
V_v1_1_0 == <<LetterV>> \o V_1_1_0
\* invalid: two components, a word, an empty pre-release, a leading zero
V_1_0 == <<Num(1), Dot, Num(0)>>
V_word == <<Id("latest")>>
V_1_1_0_dash == V_1_1_0 \o <<Dash>>
V_01_0_0 == <<Num0(1), Dot, Num(0), Dot, Num(0)>>


\* ------------------------------------------------------------------------
\* Program constants
\* ------------------------------------------------------------------------

DefaultRegistryBase == "https://registry.npmjs.org"
DefaultChannel == "latest"
DefaultSkipOnCI == TRUE
DefaultUpdateCheckIntervalMs == 21600000
DefaultDryRun == FALSE

\* the environment variables isCI reads
CIVars == {"CI", "CONTINUOUS_INTEGRATION", "BUILD_NUMBER", "GITHUB_ACTIONS"}

\* the fixed core paths of extractVersionInfo
CorePaths == <<"dist", "package.json">>

\* ------------------------------------------------------------------------
\* The state
\* ------------------------------------------------------------------------

VARIABLES
  pc,            \* the position of the current invocation in checkAndUpdate
  runs,          \* invocations started so far
  now,           \* Date.now()
  env,           \* process.env, restricted to CIVars ("" is unset or empty)
  store,         \* the timestamp file ~/.upgear/update-timestamps.json
  install,       \* the installation directory: path -> node
  tarballs,      \* scratch archive files that exist: path key -> archive
  extractDirs,   \* scratch extraction directories that exist: path key -> tree
  opts,          \* the argument of the invocation
  lastCheckTime, \* local of the gate: what readLastCheckTimestamp returned
  metadata,      \* local: the fetched metadata (optional)
  latestVersion, \* local: metadata['dist-tags'][options.channel]
  versionInfo,   \* local: the result of extractVersionInfo (optional)
  updatePaths,   \* local: the scratch paths (optional path key)
  cleanup,       \* local: [tempFilesCreated, paths]
  exc,           \* the exception in flight ("" when none)
  outcome,       \* "" while running, then "returned" or "rejected"
  log,           \* the observable steps of the invocation, in order
  notified,      \* the calls of displayUpdateNotification, in order
  gate,          \* history: what the interval gate saw and decided
  lastInitiated, \* history: gate time of the last check whose timestamp
                 \* write reached the store and is still in it (0 when none)
  ended,         \* history: how each finished invocation ended, in order
  atStart,       \* history: the files when the invocation started
  served,        \* history: the archive this run's download wrote (optional)
  removalFailed, \* history: a removal of a scratch path failed in this run
  faults,        \* history: the I/O operations that failed in this run
  peer           \* a second invocation that runs at the same time: its
                 \* position, its package and version, its scratch paths

vars == <<pc, runs, now, env, store, install, tarballs, extractDirs, opts,
          lastCheckTime, metadata, latestVersion, versionInfo, updatePaths,
          cleanup, exc, outcome, log, notified, gate, lastInitiated, ended,
          atStart, served, removalFailed, faults, peer>>

\* what the environment and the file system hold, as opposed to the locals
world == <<now, store, install, tarballs, extractDirs>>

\* the files an invocation can touch
Files == [store |-> store, install |-> install, tarballs |-> tarballs,
          extractDirs |-> extractDirs]

\* ------------------------------------------------------------------------
\* Options
\* ------------------------------------------------------------------------

\* the options object built with || in place of ??: a supplied false or 0
\* is taken for an omitted option
OptionsFalsy(o) ==
  [version |-> o.version,
   name |-> o.name,
   registryBase |-> Coalesce(o.registryBase, DefaultRegistryBase),
   channel |-> Coalesce(o.channel, DefaultChannel),
   skipOnCI |-> Coalesce(o.skipOnCI \ {FALSE}, DefaultSkipOnCI),
   updateCheckIntervalMs |->
     Coalesce(o.updateCheckIntervalMs \ {0}, DefaultUpdateCheckIntervalMs),
   dryRun |-> Coalesce(o.dryRun \ {FALSE}, DefaultDryRun),
   installDir |-> o.installDir,
   onDisplay |-> o.onDisplay]

\* the options object built from opts (lines 883-894)
Options(o) ==
  [version |-> o.version,
   name |-> o.name,
   registryBase |-> Coalesce(o.registryBase, DefaultRegistryBase),
   channel |-> Coalesce(o.channel, DefaultChannel),
   skipOnCI |-> Coalesce(o.skipOnCI, DefaultSkipOnCI),
   updateCheckIntervalMs |->
     Coalesce(o.updateCheckIntervalMs, DefaultUpdateCheckIntervalMs),
   dryRun |-> Coalesce(o.dryRun, DefaultDryRun),
   installDir |-> o.installDir,
   onDisplay |-> o.onDisplay]

options == Options(opts)

\* isCI() with GITHUB_ACTIONS forgotten
IsCINoGithub(e) ==
  e["CI"] # "" \/ e["CONTINUOUS_INTEGRATION"] # "" \/ e["BUILD_NUMBER"] # ""

\* isCI(): Boolean(CI || CONTINUOUS_INTEGRATION || BUILD_NUMBER || GITHUB_ACTIONS)
IsCI(e) ==
  \/ e["CI"] # ""
  \/ e["CONTINUOUS_INTEGRATION"] # ""
  \/ e["BUILD_NUMBER"] # ""
  \/ e["GITHUB_ACTIONS"] # ""

NoEnv == [v \in CIVars |-> ""]

\* ------------------------------------------------------------------------
\* The timestamp store
\*
\* kind: "absent" (no file), "garbage" (a file that is not JSON, such as a
\* truncated write) or "object" (a JSON object, data: package -> number).
\* ------------------------------------------------------------------------

EmptyMap == [p \in {} |-> 0]

AbsentStore == [kind |-> "absent", data |-> EmptyMap]
GarbageStore == [kind |-> "garbage", data |-> EmptyMap]
ObjectStore(d) == [kind |-> "object", data |-> d]
\* a read that does not notice that the file cannot be read
ReadLastCheckTimestampBlind(st, packageName, ioError) ==
  IF st.kind = "object" /\ packageName \in DOMAIN st.data
  THEN st.data[packageName] ELSE 0

\* readLastCheckTimestamp(packageName); ioError: readFileSync throws
ReadLastCheckTimestamp(st, packageName, ioError) ==
  IF st.kind = "absent" THEN 0
  ELSE IF ioError \/ st.kind = "garbage" THEN 0
  ELSE IF packageName \in DOMAIN st.data THEN st.data[packageName] ELSE 0
\* writeCurrentTimestamp starting from an empty object whatever the file
\* holds
LoadedDataFresh(st) == EmptyMap

\* the data writeCurrentTimestamp starts from (lines 261-270)
LoadedData(st) == IF st.kind = "object" THEN st.data ELSE EmptyMap

\* data[packageName] = t
Put(d, k, t) == [x \in DOMAIN d \cup {k} |-> IF x = k THEN t ELSE d[x]]

\* how writeCurrentTimestamp may fail: "" is no failure; "EACCES" is
\* mkdirSync, readFileSync or the opening of the file by writeFileSync
\* throwing, before anything is written; "ENOSPC" is writeFileSync throwing
\* after it has opened the file, which truncates it (flag 'w')
WriteErrors == {"EACCES", "ENOSPC"}

\* writeCurrentTimestamp(packageName) at time t. The function swallows
\* whatever is thrown; a write that fails after the file was opened leaves
\* part of the text, which is not JSON
WriteCurrentTimestamp(st, packageName, t, ioError) ==
  IF ioError = "" THEN ObjectStore(Put(LoadedData(st), packageName, t))
  ELSE IF ioError = "ENOSPC" THEN GarbageStore
  ELSE st


\* ------------------------------------------------------------------------
\* Registry metadata and the update policy
\*
\* A metadata document: [distTags, versions], both optional; distTags maps
\* channels to version strings, versions maps version strings to records
\* [dist, upgear], where dist is an optional [tarball] and tarball and
\* upgear are optional. An update policy (the upgear object) is
\* [files, needReinstall, changelogUrl], all optional.
\* ------------------------------------------------------------------------

TarballUrl == "https://registry/pkg.tgz"
ChangelogUrl == "https://x/CHANGELOG"

Policy(files, needReinstall, changelogUrl) ==
  [files |-> files, needReinstall |-> needReinstall,
   changelogUrl |-> changelogUrl]

VersionRecord(dist, upgear) == [dist |-> dist, upgear |-> upgear]

GoodDist == {[tarball |-> {TarballUrl}]}

Document(distTags, versions) == [distTags |-> distTags, versions |-> versions]

\* fetchPackageMetadata that hands on whatever body came with a failure
FetchResultBody(response) == {response.body}

\* the result of fetchPackageMetadata for each way the request can end:
\* "ok" with a document, "ok-null" (the body is the JSON value null), or a
\* failure ("http", "network", "timeout", "badjson") that yields null
FetchResult(response) ==
  IF response.status = "ok" THEN {response.body} ELSE {}
\* a file list in which the core paths only stand in for an omitted list
EffectiveFilesDeclared(upgear) == Coalesce(upgear.files, CorePaths)

\* the effective file list: ['dist', 'package.json'].concat(upgear.files || [])
EffectiveFiles(upgear) == CorePaths \o Coalesce(upgear.files, <<>>)

\* extractVersionInfo that takes a missing upgear object for an empty one
ExtractVersionInfoLenient(doc, version) ==
  IF doc.versions = {} THEN {}
  ELSE LET versions == The(doc.versions) IN
    IF version \notin DOMAIN versions THEN {}
    ELSE LET versionData == versions[version] IN
      IF versionData.dist = {} THEN {}
      ELSE IF The(versionData.dist).tarball = {} THEN {}
      ELSE LET upgear == Coalesce(versionData.upgear, Policy({}, {}, {}))
           IN {[version |-> version,
                tarballUrl |-> The(The(versionData.dist).tarball),
                upgear |-> [files |-> EffectiveFiles(upgear),
                            needReinstall |->
                              Coalesce(upgear.needReinstall, FALSE),
                            changelogUrl |-> upgear.changelogUrl]]}

\* extractVersionInfo(metadata, version, logger): an optional VersionInfo.
\* A missing 'versions' or a missing 'dist' is a TypeError that the function
\* catches, returning null.
ExtractVersionInfo(doc, version) ==
  IF doc.versions = {} THEN {}
  ELSE LET versions == The(doc.versions) IN
    IF version \notin DOMAIN versions THEN {}
    ELSE LET versionData == versions[version] IN
      IF versionData.dist = {} THEN {}
      ELSE IF The(versionData.dist).tarball = {} THEN {}
      ELSE IF versionData.upgear = {} THEN {}
      ELSE LET upgear == The(versionData.upgear)
               files == EffectiveFiles(upgear)
           IN IF Len(files) = 0 THEN {}
              ELSE {[version |-> version,
                     tarballUrl |-> The(The(versionData.dist).tarball),
                     upgear |-> [files |-> files,
                                 needReinstall |->
                                   Coalesce(upgear.needReinstall, FALSE),
                                 changelogUrl |-> upgear.changelogUrl]]}


\* ------------------------------------------------------------------------
\* Files and directories
\*
\* A node is nothing, a regular file with a content, or a directory with
\* entries (regular files, "" for an entry that does not exist).
\* ------------------------------------------------------------------------

\* the relative paths a policy can declare, and their backups `<path>.bak`
Paths == {"dist", "package.json", "bin", "lib/cli.js"}

Bak(p) ==
  CASE p = "dist" -> "dist.bak"
    [] p = "package.json" -> "package.json.bak"
    [] p = "bin" -> "bin.bak"
    [] p = "lib/cli.js" -> "lib/cli.js.bak"

BakPaths == {Bak(p) : p \in Paths}

\* the directories below the installation directory that hold a path
Dirs == {"lib"}

\* pathe.dirname(destPath), when it is not the installation directory
DestDir(p) == IF p = "lib/cli.js" THEN {"lib"} ELSE {}

Children == {"a.js", "b.js"}

NoEntries == [ch \in Children |-> ""]
NoNode == [k |-> "none", c |-> "", e |-> NoEntries]
FileNode(c) == [k |-> "file", c |-> c, e |-> NoEntries]
DirNode(e) == [k |-> "dir", c |-> "", e |-> e]

Exists(node) == node.k # "none"
IsDirectory(node) == node.k = "dir"

\* fs.cpSync(src, dest, {recursive, force}) of a directory onto a directory
\* or onto nothing: every source entry overwrites its counterpart
MergeEntries(dst, src) ==
  [ch \in Children |-> IF src[ch] # "" THEN src[ch] ELSE dst[ch]]

\* a scratch extraction directory: the conventional wrapper 'package'
\* (absent, a directory or a regular file), whether another top-level entry
\* exists, and the declared paths at the root and inside the wrapper
Tree(wrapper, other, root, pkg) ==
  [wrapper |-> wrapper, other |-> other, root |-> root, pkg |-> pkg]

NoPayload == [p \in Paths |-> NoNode]
EmptyTree == Tree("none", FALSE, NoPayload, NoPayload)
\* the emptiness test left out: every extraction counts as non-empty
IsEmptyTreeNever(t) == FALSE

\* fs.readdirSync(extractDir).length === 0
IsEmptyTree(t) ==
  /\ t.wrapper = "none"
  /\ ~t.other
  /\ \A p \in Paths : ~Exists(t.root[p])

MergeNode(dst, src) ==
  IF ~Exists(src) THEN dst
  ELSE IF IsDirectory(src) /\ IsDirectory(dst)
  THEN DirNode(MergeEntries(dst.e, src.e))
  ELSE src

\* tar.extract into a directory that already holds a tree
MergeTree(old, new) ==
  Tree(IF new.wrapper # "none" THEN new.wrapper ELSE old.wrapper,
       old.other \/ new.other,
       [p \in Paths |-> MergeNode(old.root[p], new.root[p])],
       [p \in Paths |-> MergeNode(old.pkg[p], new.pkg[p])])
\* a source base that is the entry 'package' whenever it exists, whether
\* or not it is a directory
SourceBaseExisting(t) == IF t.wrapper # "none" THEN t.pkg ELSE t.root

\* the source base of copyUpdatedFiles (lines 705-710)
SourceBase(t) == IF t.wrapper = "dir" THEN t.pkg ELSE t.root

\* a function without one key, and with one key set
Without(f, k) == [x \in DOMAIN f \ {k} |-> f[x]]
With(f, k, v) == [x \in DOMAIN f \cup {k} |-> IF x = k THEN v ELSE f[x]]

\* packageName.replace(/[^a-zA-Z0-9]/g, '_')
Sanitize(packageName) ==
  CASE packageName = "my-cli" -> "my_cli"
    [] packageName = "other-cli" -> "other_cli"
    [] OTHER -> packageName
\* scratch paths named without the time
CreateTempPathsUntimed(packageName, version, t) == <<Sanitize(packageName), version, 0>>

\* createTempPaths(packageName, version): both scratch paths are named by
\* the sanitized package name, the version and Date.now()
CreateTempPaths(packageName, version, t) == <<Sanitize(packageName), version, t>>

Event(ev, arg) == [ev |-> ev, arg |-> arg]

\* ---- backupFiles ----

\* What the backup of one path does to the installation directory and
\* what it logs. fault: "none"; "remove" (removing the previous backup
\* fails: unlinkSync throws, deleteDirRecursive fails silently); "copy"
\* (the copy throws before anything is copied).
\* a backup that leaves the previous backup where it is
RemoveBackupSkipped(bak, fault) == bak

\* lines 646-653: what is left of the previous backup once it was removed;
\* deleteDirRecursive fails silently, and a failing unlinkSync ends the
\* backup of the path
RemoveBackup(bak, fault) ==
  IF Exists(bak) /\ fault = "remove" THEN bak ELSE NoNode

BackupOne(inst, p, dryRun, fault) ==
  LET target == inst[p]
      bak == inst[Bak(p)]
      keep == [inst |-> inst, log |-> <<Event("warn:backup", p)>>]
      removed == RemoveBackup(bak, fault)
      base == [inst EXCEPT ![Bak(p)] = removed]
  IN
  IF ~Exists(target) THEN [inst |-> inst, log |-> <<>>]
  ELSE IF dryRun THEN [inst |-> inst, log |-> <<Event("info:dry-backup", p)>>]
  ELSE IF Exists(bak) /\ ~IsDirectory(bak) /\ fault = "remove" THEN keep
  ELSE IF IsDirectory(target)
  THEN \* mkdirSync(backupPath, {recursive: true}), then entry by entry
       IF fault = "copy"
       THEN [inst |-> [base EXCEPT ![Bak(p)] =
                         DirNode(IF IsDirectory(removed) THEN removed.e
                                 ELSE NoEntries)],
             log |-> <<Event("warn:backup", p)>>]
       ELSE [inst |-> [base EXCEPT ![Bak(p)] =
                         DirNode(MergeEntries(
                           IF IsDirectory(removed) THEN removed.e ELSE NoEntries,
                           target.e))],
             log |-> <<Event("backup", p)>>]
  ELSE \* copyFileSync(fullPath, backupPath)
       IF fault = "copy" \/ IsDirectory(removed)
       THEN [inst |-> base, log |-> <<Event("warn:backup", p)>>]
       ELSE [inst |-> [base EXCEPT ![Bak(p)] = FileNode(target.c)],
             log |-> <<Event("backup", p)>>]

\* backupFiles from index i on; pathFaults: index -> fault
RECURSIVE BackupFrom(_, _, _, _, _)
BackupFrom(inst, files, i, dryRun, pathFaults) ==
  IF i > Len(files) THEN [inst |-> inst, log |-> <<>>]
  ELSE LET one == BackupOne(inst, files[i], dryRun, pathFaults[i])
           rest == BackupFrom(one.inst, files, i + 1, dryRun, pathFaults)
       IN [inst |-> rest.inst, log |-> one.log \o rest.log]

\* backupFiles that does not look at dryRun
BackupFilesWet(inst, files, dryRun, pathFaults) ==
  BackupFrom(inst, files, 1, FALSE, pathFaults)

\* backupFiles that backs nothing up
BackupFilesNone(inst, files, dryRun, pathFaults) ==
  [inst |-> inst, log |-> <<>>]

\* backupFiles(files, installDir, logger, dryRun)
BackupFiles(inst, files, dryRun, pathFaults) ==
  BackupFrom(inst, files, 1, dryRun, pathFaults)

\* ---- copyUpdatedFiles ----

\* What the replace of one path does. fault: "none" or "copy" (the copy
\* throws before anything is copied, after a regular file in the way of a
\* directory was removed).
\* a copy of a directory onto a directory that drops what the destination
\* held
CopyDirectoryFresh(dest, source) == source

\* line 738: fs.cpSync(sourcePath, destPath, {recursive: true, force: true})
\* onto a directory
CopyDirectory(dest, source) == DirNode(MergeEntries(dest.e, source.e))

\* lines 727-731: the directory of the destination is created when nothing
\* is there
MakeDestDir(inst, p) ==
  IF DestDir(p) # {} /\ ~Exists(inst[The(DestDir(p))])
  THEN [inst EXCEPT ![The(DestDir(p))] = DirNode(NoEntries)]
  ELSE inst

CopyOne(inst, base, p, dryRun, fault) ==
  LET source == base[p]
      made == MakeDestDir(inst, p)
      dest == made[p]
      failed(i) == [inst |-> i, log |-> <<Event("warn:copy", p)>>]
      done(node) == [inst |-> [made EXCEPT ![p] = node],
                     log |-> <<Event("copy", p)>>]
  IN
  IF ~Exists(source)
  THEN [inst |-> inst, log |-> <<Event("warn:source-missing", p)>>]
  ELSE IF dryRun THEN [inst |-> inst, log |-> <<Event("info:dry-copy", p)>>]
  ELSE IF DestDir(p) # {} /\ ~IsDirectory(made[The(DestDir(p))])
  THEN \* the directory of the destination is a regular file: ENOTDIR
       failed(inst)
  ELSE IF IsDirectory(source)
  THEN IF IsDirectory(dest)
       THEN IF fault = "copy" THEN failed(made)
            ELSE done(CopyDirectory(dest, source))
       ELSE \* unlinkSync(destPath) when it exists, then cpSync
            IF fault = "copy" THEN failed([made EXCEPT ![p] = NoNode])
            ELSE done(source)
  ELSE \* copyFileSync(sourcePath, destPath): EISDIR onto a directory
       IF fault = "copy" \/ IsDirectory(dest) THEN failed(made)
       ELSE done(FileNode(source.c))

RECURSIVE CopyFrom(_, _, _, _, _, _)
CopyFrom(inst, base, files, i, dryRun, pathFaults) ==
  IF i > Len(files) THEN [inst |-> inst, log |-> <<>>]
  ELSE LET one == CopyOne(inst, base, files[i], dryRun, pathFaults[i])
           rest == CopyFrom(one.inst, base, files, i + 1, dryRun, pathFaults)
       IN [inst |-> rest.inst, log |-> one.log \o rest.log]

\* a replace pass that ends at the first path that fails
RECURSIVE CopyUntilFailure(_, _, _, _, _, _)
CopyUntilFailure(inst, base, files, i, dryRun, pathFaults) ==
  IF i > Len(files) THEN [inst |-> inst, log |-> <<>>]
  ELSE LET one == CopyOne(inst, base, files[i], dryRun, pathFaults[i])
           rest == CopyUntilFailure(one.inst, base, files, i + 1, dryRun,
                                    pathFaults)
       IN IF one.log = <<Event("warn:copy", files[i])>> THEN one
          ELSE [inst |-> rest.inst, log |-> one.log \o rest.log]

CopyUpdatedFilesAbort(inst, tree, files, dryRun, pathFaults) ==
  CopyUntilFailure(inst, SourceBase(tree), files, 1, dryRun, pathFaults)

\* a replace pass whose dry run logs the intended copy of every path
\* without looking for its source
CopyUpdatedFilesDryFirst(inst, tree, files, dryRun, pathFaults) ==
  IF dryRun
  THEN [inst |-> inst,
        log |-> [k \in 1..Len(files) |-> Event("info:dry-copy", files[k])]]
  ELSE CopyFrom(inst, SourceBase(tree), files, 1, dryRun, pathFaults)

\* copyUpdatedFiles(files, extractDir, installDir, logger, dryRun); tree is
\* the extraction directory, EmptyTree when it does not exist
CopyUpdatedFiles(inst, tree, files, dryRun, pathFaults) ==
  CopyFrom(inst, SourceBase(tree), files, 1, dryRun, pathFaults)


\* ------------------------------------------------------------------------
\* checkAndUpdate, step by step
\*
\* Every action takes the input space S it draws from: the arguments
\* (S.opts), the environment (S.envs), the initial timestamp stores and
\* installation directories (S.stores, S.installs), the registry's answers
\* (S.responses), the archives served and how the download ends
\* (S.archives, S.downloads), whether I/O operations can fail (S.io) and
\* how (S.extractFaults, S.cleanupFaults, S.pathFaults), the time between
\* two invocations (S.waits), the positions at which the clock may advance
\* inside an invocation (S.tickAt) and the number of invocations (S.runs).
\* ------------------------------------------------------------------------

NoOpts ==
  [name |-> "", version |-> <<>>, registryBase |-> {}, channel |-> {},
   skipOnCI |-> {}, updateCheckIntervalMs |-> {}, dryRun |-> {},
   installDir |-> {}, onDisplay |-> {}]

NoGate == [evaluated |-> FALSE, at |-> 0, recorded |-> 0, readable |-> FALSE,
           skipped |-> FALSE]

NoCleanup == [tempFilesCreated |-> FALSE, paths |-> {}]

\* the second invocation before it has created its scratch paths
NoPeer == [pc |-> "off", name |-> "", version |-> <<>>, at |-> 0,
           paths |-> {}, data |-> EmptyMap]

\* whether the next I/O operation may fail: S.io allows it and the
\* invocation has failures left
CanFail(S) == {b \in S.io : b => faults < MaxFaults}

Failed(b) == IF b THEN 1 ELSE 0

InitIn(S) ==
  /\ pc = "idle"
  /\ runs = 0
  /\ now = 1
  /\ env = NoEnv
  /\ store \in S.stores
  /\ install \in S.installs
  /\ tarballs = EmptyMap
  /\ extractDirs = EmptyMap
  /\ opts = NoOpts
  /\ lastCheckTime = 0
  /\ metadata = {}
  /\ latestVersion = <<>>
  /\ versionInfo = {}
  /\ updatePaths = {}
  /\ cleanup = NoCleanup
  /\ exc = ""
  /\ outcome = ""
  /\ log = <<>>
  /\ notified = <<>>
  /\ gate = NoGate
  /\ lastInitiated = 0
  /\ ended = <<>>
  /\ atStart = Files
  /\ served = {}
  /\ removalFailed = FALSE
  /\ faults = 0
  /\ peer = NoPeer

\* Time passes inside an invocation. Date.now() is read by the gate, by
\* writeCurrentTimestamp and by createTempPaths; S.tickAt names the
\* positions at which the clock may advance.
Tick(S) ==
  /\ pc \in S.tickAt
  /\ now < MaxTime
  /\ now' = now + 1
  /\ UNCHANGED <<pc, runs, env, store, install, tarballs, extractDirs, opts,
                 lastCheckTime, metadata, latestVersion, versionInfo,
                 updatePaths, cleanup, exc, outcome, log, notified, gate,
                 lastInitiated, ended, atStart, served, removalFailed, faults>>
  /\ UNCHANGED peer

\* The call checkAndUpdate(opts), S.waits after the previous one (or after
\* the initial state): lines 880-906
Start(S) ==
  /\ pc \in {"idle", "done"}
  /\ runs < S.runs
  /\ \E o \in S.opts : opts' = o
  /\ \E wait \in S.waits : now + wait <= MaxTime /\ now' = now + wait
  /\ runs' = runs + 1
  /\ pc' = "ci"
  /\ env' = NoEnv
  /\ lastCheckTime' = 0
  /\ metadata' = {}
  /\ latestVersion' = <<>>
  /\ versionInfo' = {}
  /\ updatePaths' = {}
  /\ cleanup' = NoCleanup
  /\ exc' = ""
  /\ outcome' = ""
  /\ log' = <<>>
  /\ notified' = <<>>
  /\ gate' = NoGate
  /\ atStart' = Files
  /\ served' = {}
  /\ removalFailed' = FALSE
  /\ faults' = 0
  /\ UNCHANGED <<store, install, tarballs, extractDirs, lastInitiated, ended>>
  /\ UNCHANGED peer

\* lines 908-911
CheckCI(S) ==
  /\ pc = "ci"
  /\ \E e \in S.envs :
       /\ env' = e
       /\ pc' = IF options.skipOnCI /\ IsCI(e) THEN "outerFinally" ELSE "gate"
  /\ UNCHANGED <<runs, world, opts, lastCheckTime, metadata, latestVersion,
                 versionInfo, updatePaths, cleanup, exc, outcome, log,
                 notified, gate, lastInitiated, ended, atStart, served, removalFailed, faults>>
  /\ UNCHANGED peer

\* the gate's decision with an inclusive lower end: <= for <
GateSkipsInclusive(last, t, interval) == last > 0 /\ t - last <= interval

\* the gate's decision without the test for a prior timestamp
GateSkipsNoPrior(last, t, interval) == t - last < interval

\* lines 917-920: lastCheckTime > 0 && timeSinceLastCheck < interval
GateSkips(last, t, interval) == last > 0 /\ t - last < interval

\* lines 913-932
EvalGate(S) ==
  /\ pc = "gate"
  /\ IF ~options.dryRun /\ options.updateCheckIntervalMs > 0
     THEN \E ioError \in CanFail(S) :
            LET last == ReadLastCheckTimestamp(store, options.name, ioError)
                skip == GateSkips(last, now, options.updateCheckIntervalMs)
            IN /\ lastCheckTime' = last
               /\ log' = Append(log, Event("store-read", ""))
               /\ gate' = [evaluated |-> TRUE, at |-> now,
                           recorded |-> ReadLastCheckTimestamp(
                                          store, options.name, FALSE),
                           readable |-> ~ioError, skipped |-> skip]
               /\ faults' = faults + Failed(ioError)
               /\ pc' = IF skip THEN "outerFinally" ELSE "stamp"
     ELSE /\ gate' = [NoGate EXCEPT !.at = now]
          /\ pc' = "stamp"
          /\ UNCHANGED <<lastCheckTime, log, faults>>
  /\ UNCHANGED <<runs, env, world, opts, metadata, latestVersion, versionInfo,
                 updatePaths, cleanup, exc, outcome, notified, lastInitiated,
                 ended, atStart, served, removalFailed>>
  /\ UNCHANGED peer

\* lines 934-937, with the write forgotten
WriteStampNever(S) ==
  /\ pc = "stamp"
  /\ pc' = "fetch"
  /\ lastInitiated' = IF options.dryRun THEN lastInitiated ELSE gate.at
  /\ UNCHANGED <<runs, now, env, store, install, tarballs, extractDirs, opts,
                 lastCheckTime, metadata, latestVersion, versionInfo,
                 updatePaths, cleanup, exc, outcome, log, notified, gate,
                 ended, atStart, served, removalFailed, faults>>
  /\ UNCHANGED peer

\* lines 934-937
WriteStamp(S) ==
  /\ pc = "stamp"
  /\ IF ~options.dryRun
     THEN \E ioError \in {""} \cup (IF TRUE \in CanFail(S) THEN WriteErrors
                                   ELSE {}) :
            /\ store' = WriteCurrentTimestamp(store, options.name, now, ioError)
            /\ log' = Append(log, Event("store-write",
                                        IF ioError # "" THEN "failed" ELSE "ok"))
            /\ lastInitiated' = IF ioError = "" THEN gate.at
                                ELSE IF ioError = "ENOSPC" THEN 0
                                ELSE lastInitiated
            /\ faults' = faults + Failed(ioError # "")
     ELSE UNCHANGED <<store, log, lastInitiated, faults>>
  /\ pc' = "fetch"
  /\ UNCHANGED <<runs, now, env, install, tarballs, extractDirs, opts,
                 lastCheckTime, metadata, latestVersion, versionInfo,
                 updatePaths, cleanup, exc, outcome, notified, gate, ended, atStart, served,
                 removalFailed>>
  /\ UNCHANGED peer

\* the ways the request of fetchPackageMetadata ends without a usable
\* response: a status that is not ok (lines 334-338), a network failure, or
\* the abort of the 10 s timer (line 318), both caught at lines 344-346
RequestFailures == {"http", "network", "timeout"}

\* lines 939-949, fetchPackageMetadata up to line 338: the request is
\* issued and awaited. The 10 s timer covers this await only: it is cleared
\* as soon as the response arrives (lines 329-332), before the body is read.
Fetch(S) ==
  /\ pc = "fetch"
  /\ \E response \in S.responses :
       IF response.status \in RequestFailures
       THEN /\ metadata' = FetchResult(response)
            /\ log' = log \o <<Event("registry", options.registryBase),
                               Event("warn:fetch", response.status)>>
                          \o (IF metadata' = {}
                              THEN <<Event("warn:no-metadata", "")>> ELSE <<>>)
            /\ pc' = IF metadata' = {} THEN "outerFinally" ELSE "channel"
       ELSE /\ log' = Append(log, Event("registry", options.registryBase))
            /\ pc' = "fetchBody"
            /\ UNCHANGED metadata
  /\ UNCHANGED <<runs, env, world, opts, lastCheckTime, latestVersion,
                 versionInfo, updatePaths, cleanup, exc, outcome, notified,
                 gate, lastInitiated, ended, atStart, served, removalFailed,
                 faults>>
  /\ UNCHANGED peer

\* fetchPackageMetadata lines 340-346 and the null check of lines 945-949:
\* `await response.json()` settles. No timer is armed while it is pending, so
\* the step happens only when the server finishes (or breaks) the body.
ReadMetadata(S) ==
  /\ pc = "fetchBody"
  /\ \E response \in S.responses :
       /\ response.status \notin RequestFailures
       /\ metadata' = FetchResult(response)
       /\ log' = log \o (IF response.status \in {"ok", "ok-null"} THEN <<>>
                         ELSE <<Event("warn:fetch", response.status)>>)
                     \o (IF metadata' = {}
                         THEN <<Event("warn:no-metadata", "")>> ELSE <<>>)
       /\ pc' = IF metadata' = {} THEN "outerFinally" ELSE "channel"
  /\ UNCHANGED <<runs, env, world, opts, lastCheckTime, latestVersion,
                 versionInfo, updatePaths, cleanup, exc, outcome, notified,
                 gate, lastInitiated, ended, atStart, served, removalFailed,
                 faults>>
  /\ UNCHANGED peer

\* lines 951-956 without the check of the channel's entry
ResolveChannelUnchecked ==
  /\ pc = "channel"
  /\ LET doc == The(metadata) IN
     IF doc.distTags = {}
     THEN /\ exc' = "TypeError"
          /\ pc' = "outerCatch"
          /\ UNCHANGED latestVersion
     ELSE LET tags == The(doc.distTags) IN
          /\ latestVersion' = IF options.channel \in DOMAIN tags
                              THEN tags[options.channel] ELSE <<>>
          /\ pc' = "decide"
          /\ exc' = exc
  /\ UNCHANGED <<runs, env, world, opts, lastCheckTime, metadata, versionInfo,
                 updatePaths, cleanup, outcome, log, notified, gate,
                 lastInitiated, ended, atStart, served, removalFailed,
                 faults>>
  /\ UNCHANGED peer

\* lines 951-956; a document without 'dist-tags' makes the lookup a TypeError
ResolveChannel ==
  /\ pc = "channel"
  /\ LET doc == The(metadata) IN
     IF doc.distTags = {}
     THEN /\ exc' = "TypeError"
          /\ pc' = "outerCatch"
          /\ UNCHANGED <<latestVersion, log>>
     ELSE LET tags == The(doc.distTags)
              found == /\ options.channel \in DOMAIN tags
                       /\ tags[options.channel] # <<>>
          IN /\ latestVersion' =
                  IF found THEN tags[options.channel] ELSE <<>>
             /\ log' = IF found THEN log
                       ELSE Append(log, Event("warn:no-channel", ""))
             /\ pc' = IF found THEN "decide" ELSE "outerFinally"
             /\ exc' = exc
  /\ UNCHANGED <<runs, env, world, opts, lastCheckTime, metadata, versionInfo,
                 updatePaths, cleanup, outcome, notified, gate, lastInitiated,
                 ended, atStart, served, removalFailed, faults>>
  /\ UNCHANGED peer

\* lines 962-965
Decide ==
  /\ pc = "decide"
  /\ LET needed == IsUpdateNeeded(options.version, latestVersion) IN
     /\ pc' = IF needed THEN "policy" ELSE "outerFinally"
     /\ log' = log
               \o (IF SemverValid(options.version) /\ SemverValid(latestVersion)
                   THEN <<>> ELSE <<Event("warn:invalid-version", "")>>)
               \o <<Event("decide", IF needed THEN "update" ELSE "no-update")>>
  /\ UNCHANGED <<runs, env, world, opts, lastCheckTime, metadata,
                 latestVersion, versionInfo, updatePaths, cleanup, exc,
                 outcome, notified, gate, lastInitiated, ended, atStart, served,
                 removalFailed, faults>>
  /\ UNCHANGED peer

\* lines 971-977
ExtractPolicy ==
  /\ pc = "policy"
  /\ versionInfo' = ExtractVersionInfo(The(metadata), latestVersion)
  /\ pc' = IF versionInfo' = {} THEN "outerFinally" ELSE "reinstall"
  /\ log' = IF versionInfo' = {}
            THEN Append(log, Event("warn:no-policy", "")) ELSE log
  /\ UNCHANGED <<runs, env, world, opts, lastCheckTime, metadata,
                 latestVersion, updatePaths, cleanup, exc, outcome, notified,
                 gate, lastInitiated, ended, atStart, served, removalFailed, faults>>
  /\ UNCHANGED peer

\* displayUpdateNotification without its dry-run branch (lines 780-785)
DisplayUpdateNotificationWet(version, packageName, needReinstall, changelogUrl, dryRun, onDisplay) ==
  LET payload(via, printed) ==
        [via |-> via, version |-> version, packageName |-> packageName,
         needReinstall |-> needReinstall, changelogUrl |-> changelogUrl,
         printed |-> printed]
  IN IF onDisplay # {}
     THEN [call |-> payload("custom", {}),
           log |-> <<Event("notify", "custom")>>,
           throws |-> The(onDisplay) = "throws"]
     ELSE [call |-> payload("default",
                            {"version", "packageName"}
                            \cup (IF ~needReinstall /\ changelogUrl # {}
                                  THEN {"changelogUrl"} ELSE {})),
           log |-> <<Event("notify", "default")>>,
           throws |-> FALSE]

\* displayUpdateNotification that never hands over to onDisplay
DisplayUpdateNotificationConsole(version, packageName, needReinstall, changelogUrl, dryRun, onDisplay) ==
  [call |-> [via |-> IF dryRun THEN "logged" ELSE "default",
             version |-> version, packageName |-> packageName,
             needReinstall |-> needReinstall, changelogUrl |-> changelogUrl,
             printed |-> {"version", "packageName"}],
   log |-> <<IF dryRun THEN Event("info:dry-notify", "")
             ELSE Event("notify", "default")>>,
   throws |-> FALSE]

\* displayUpdateNotification(version, packageName, needReinstall,
\* changelogUrl, logger, dryRun, onDisplay): the call as it is presented
\* ("logged" in a dry run, "custom" through onDisplay, "default" on the
\* console) with the four values and which of them the library itself
\* prints, what it logs, and whether it throws. onDisplay is the behaviour
\* of the callback: "ok" or "throws".
DisplayUpdateNotification(version, packageName, needReinstall, changelogUrl, dryRun, onDisplay) ==
  LET payload(via, printed) ==
        [via |-> via, version |-> version, packageName |-> packageName,
         needReinstall |-> needReinstall, changelogUrl |-> changelogUrl,
         printed |-> printed]
  IN IF dryRun
     THEN [call |-> payload("logged", {"version", "packageName"}),
           log |-> <<Event("info:dry-notify", "")>>, throws |-> FALSE]
     ELSE IF onDisplay # {}
     THEN [call |-> payload("custom", {}),
           log |-> <<Event("notify", "custom")>>,
           throws |-> The(onDisplay) = "throws"]
     ELSE [call |-> payload("default",
                            {"version", "packageName"}
                            \cup (IF ~needReinstall /\ changelogUrl # {}
                                  THEN {"changelogUrl"} ELSE {})),
           log |-> <<Event("notify", "default")>>,
           throws |-> FALSE]

\* lines 981-994, downloading even when a reinstall is required
ReinstallCheckIgnored ==
  /\ pc = "reinstall"
  /\ pc' = "paths"
  /\ UNCHANGED <<runs, env, world, opts, lastCheckTime, metadata,
                 latestVersion, versionInfo, updatePaths, cleanup, exc,
                 outcome, log, notified, gate, lastInitiated, ended, atStart, served,
                 removalFailed, faults>>
  /\ UNCHANGED peer

\* lines 981-994
ReinstallCheck ==
  /\ pc = "reinstall"
  /\ LET info == The(versionInfo) IN
     IF info.upgear.needReinstall
     THEN LET d == DisplayUpdateNotification(
                     info.version, options.name, TRUE,
                     info.upgear.changelogUrl, options.dryRun,
                     options.onDisplay)
          IN /\ notified' = Append(notified, d.call)
             /\ log' = log \o d.log
             /\ exc' = IF d.throws THEN "Error" ELSE exc
             /\ pc' = IF d.throws THEN "outerCatch" ELSE "outerFinally"
     ELSE /\ pc' = "paths"
          /\ UNCHANGED <<notified, log, exc>>
  /\ UNCHANGED <<runs, env, world, opts, lastCheckTime, metadata,
                 latestVersion, versionInfo, updatePaths, cleanup, outcome,
                 gate, lastInitiated, ended, atStart, served, removalFailed, faults>>
  /\ UNCHANGED peer

\* lines 996-1001
MakeTempPaths ==
  /\ pc = "paths"
  /\ updatePaths' =
       {CreateTempPaths(options.name, The(versionInfo).version, now)}
  /\ cleanup' = [cleanup EXCEPT !.paths = updatePaths']
  /\ log' = Append(log, Event("temp-paths", ""))
  /\ pc' = "download"
  /\ UNCHANGED <<runs, env, world, opts, lastCheckTime, metadata,
                 latestVersion, versionInfo, exc, outcome, notified, gate,
                 lastInitiated, ended, atStart, served, removalFailed, faults>>
  /\ UNCHANGED peer

\* the catch block of downloadTarball without the removal of the part
DownloadCatchKeeps(files, key, removalFails) == files

\* The catch block of downloadTarball (lines 545-554): the archive files
\* after it; removalFails: unlinkSync throws, which is swallowed
DownloadCatch(files, key, removalFails) ==
  IF key \in DOMAIN files /\ ~removalFails THEN Without(files, key) ELSE files

\* line 1004 with downloadTarball lines 495-538: the dry-run return, or the
\* request is issued and awaited. The 30 s timer covers this await only: it
\* is cleared as soon as the response arrives (lines 524-527). The request
\* ends "early" (status not ok, missing body, network failure, abort: no
\* file was created, and the catch block of lines 545-554 removes a file
\* of that name if there is one) or with a response whose body is then
\* streamed.
DownloadTarball(S) ==
  /\ pc = "download"
  /\ IF options.dryRun
     THEN /\ log' = Append(log, Event("info:dry-download", ""))
          /\ pc' = "extract"
          /\ UNCHANGED <<tarballs, exc, removalFailed, faults>>
     ELSE \E status \in S.downloads, removalFails \in CanFail(S) :
            LET key == The(updatePaths) IN
            /\ removalFails => status = "early" /\ key \in DOMAIN tarballs
            /\ IF status = "early"
               THEN \* the catch block also finds a file an earlier run left
                    /\ tarballs' = DownloadCatch(tarballs, key, removalFails)
                    /\ faults' = faults + Failed(removalFails)
                    /\ removalFailed' = (removalFailed \/ removalFails)
                    /\ log' = Append(log, Event("download", "early"))
                    /\ exc' = "Error"
                    /\ pc' = "innerCatch"
               ELSE /\ pc' = "downloadBody"
                    /\ UNCHANGED <<tarballs, removalFailed, faults, log, exc>>
  /\ UNCHANGED <<runs, now, env, store, install, extractDirs, opts,
                 lastCheckTime, metadata, latestVersion, versionInfo,
                 updatePaths, cleanup, outcome, notified, gate, lastInitiated,
                 ended, atStart, served>>
  /\ UNCHANGED peer

\* downloadTarball lines 530-554 and lines 1009-1014: the body is streamed
\* to the archive file and the run marks that files were created. No timer
\* is armed while the stream is pending. It ends "ok" (the archive is
\* written) or "mid" (it breaks after a part was written, and the catch
\* block removes the part).
StreamTarball(S) ==
  /\ pc = "downloadBody"
  /\ LET key == The(updatePaths) IN
     \E status \in S.downloads \ {"early"}, archive \in S.archives,
        removalFails \in CanFail(S) :
       /\ status # "ok" => archive = EmptyTree
       /\ status # "mid" => ~removalFails
       /\ LET written == With(tarballs, key, archive)
          IN IF status = "ok"
             THEN /\ tarballs' = written
                  /\ served' = {archive}
                  /\ cleanup' = [cleanup EXCEPT !.tempFilesCreated = TRUE]
                  /\ log' = log \o <<Event("download", "ok"),
                                     Event("tarball-written", "")>>
                  /\ pc' = "extract"
                  /\ UNCHANGED <<exc, removalFailed, faults>>
             ELSE /\ tarballs' = DownloadCatch(written, key, removalFails)
                  /\ faults' = faults + Failed(removalFails)
                  /\ removalFailed' = (removalFailed \/ removalFails)
                  /\ log' = log \o <<Event("download", status),
                                     Event("tarball-written", "")>>
                  /\ exc' = "Error"
                  /\ pc' = "innerCatch"
                  /\ UNCHANGED <<cleanup, served>>
  /\ UNCHANGED <<runs, now, env, store, install, extractDirs, opts,
                 lastCheckTime, metadata, latestVersion, versionInfo,
                 updatePaths, outcome, notified, gate, lastInitiated,
                 ended, atStart>>
  /\ UNCHANGED peer

\* lines 1016-1021: extractTarball. fault: "none", "mkdir" (the directory
\* cannot be created), "tar" (tar.extract rejects after unpacking a part,
\* here nothing or everything).
ExtractTarball(S) ==
  /\ pc = "extract"
  /\ LET key == The(updatePaths) IN
     IF options.dryRun
     THEN /\ log' = Append(log, Event("info:dry-extract", ""))
          /\ pc' = "rmTarball"
          /\ UNCHANGED <<extractDirs, exc, faults>>
     ELSE \E fault \in S.extractFaults, partial \in BOOLEAN :
            LET old == IF key \in DOMAIN extractDirs
                       THEN extractDirs[key] ELSE EmptyTree
                archive == IF key \in DOMAIN tarballs
                           THEN tarballs[key] ELSE EmptyTree
                full == MergeTree(old, archive)
            IN /\ fault # "tar" => ~partial
               /\ fault # "none" => faults < MaxFaults
               /\ faults' = faults + Failed(fault # "none")
               /\ IF fault = "mkdir" /\ key \notin DOMAIN extractDirs
                  THEN /\ UNCHANGED extractDirs
                       /\ log' = Append(log, Event("extract", "no-dir"))
                       /\ exc' = "Error"
                       /\ pc' = "innerCatch"
                  ELSE IF fault = "tar" \/ key \notin DOMAIN tarballs
                  THEN /\ extractDirs' =
                            With(extractDirs, key, IF partial THEN full ELSE old)
                       /\ log' = Append(log, Event("extract", "failed"))
                       /\ exc' = "Error"
                       /\ pc' = "innerCatch"
                  ELSE /\ extractDirs' = With(extractDirs, key, full)
                       /\ log' = Append(log, Event("extract",
                                   IF IsEmptyTree(full) THEN "empty" ELSE "ok"))
                       /\ exc' = IF IsEmptyTree(full) THEN "Error" ELSE exc
                       /\ pc' = IF IsEmptyTree(full)
                                THEN "innerCatch" ELSE "rmTarball"
  /\ UNCHANGED <<runs, now, env, store, install, tarballs, opts,
                 lastCheckTime, metadata, latestVersion, versionInfo,
                 updatePaths, cleanup, outcome, notified, gate, lastInitiated,
                 ended, atStart, served, removalFailed>>
  /\ UNCHANGED peer

\* lines 1023-1026: the archive is deleted once it is extracted
RemoveTarball(S) ==
  /\ pc = "rmTarball"
  /\ LET key == The(updatePaths) IN
     IF ~options.dryRun /\ key \in DOMAIN tarballs
     THEN \E removalFails \in CanFail(S) :
            /\ tarballs' = IF removalFails THEN tarballs
                           ELSE Without(tarballs, key)
            /\ exc' = IF removalFails THEN "Error" ELSE exc
            /\ removalFailed' = (removalFailed \/ removalFails)
            /\ faults' = faults + Failed(removalFails)
            /\ pc' = IF removalFails THEN "innerCatch" ELSE "installDir"
     ELSE /\ pc' = "installDir"
          /\ UNCHANGED <<tarballs, exc, removalFailed, faults>>
  /\ UNCHANGED <<runs, now, env, store, install, extractDirs, opts,
                 lastCheckTime, metadata, latestVersion, versionInfo,
                 updatePaths, cleanup, outcome, log, notified, gate,
                 lastInitiated, ended, atStart, served>>
  /\ UNCHANGED peer

\* lines 1028-1030 without the assertion
AssertInstallDirIgnored ==
  /\ pc = "installDir"
  /\ pc' = "backup"
  /\ UNCHANGED <<runs, env, world, opts, lastCheckTime, metadata,
                 latestVersion, versionInfo, updatePaths, cleanup, exc,
                 outcome, log, notified, gate, lastInitiated, ended, atStart, served,
                 removalFailed, faults>>
  /\ UNCHANGED peer

\* lines 1028-1030: assert(installDir, 'installDir is required')
AssertInstallDir ==
  /\ pc = "installDir"
  /\ exc' = IF options.installDir = {} THEN "AssertionError" ELSE exc
  /\ pc' = IF options.installDir = {} THEN "innerCatch" ELSE "backup"
  /\ UNCHANGED <<runs, env, world, opts, lastCheckTime, metadata,
                 latestVersion, versionInfo, updatePaths, cleanup, outcome,
                 log, notified, gate, lastInitiated, ended, atStart, served, removalFailed, faults>>
  /\ UNCHANGED peer


\* the paths of one pass that fail
Faulty(f) == {i \in DOMAIN f : f[i] # "none"}

\* the per-path faults of one pass over n paths, with at most k failures
FaultAssignments(n, kinds, k) ==
  {f \in [1..n -> kinds \cup {"none"}] : Cardinality(Faulty(f)) <= k}

NoFaults(n) == [i \in 1..n |-> "none"]

\* lines 1032-1037: the backup pass over every declared path
Backup(S) ==
  /\ pc = "backup"
  /\ LET files == The(versionInfo).upgear.files IN
     \E f \in IF options.dryRun THEN {NoFaults(Len(files))}
              ELSE FaultAssignments(Len(files),
                                    S.pathFaults \cap {"remove", "copy"},
                                    MaxFaults - faults) :
       LET r == BackupFiles(install, files, options.dryRun, f) IN
       /\ install' = r.inst
       /\ log' = Append(log, Event("backup-pass", "")) \o r.log
       /\ faults' = faults + Cardinality(Faulty(f))
  /\ pc' = "copy"
  /\ UNCHANGED <<runs, now, env, store, tarballs, extractDirs, opts,
                 lastCheckTime, metadata, latestVersion, versionInfo,
                 updatePaths, cleanup, exc, outcome, notified, gate,
                 lastInitiated, ended, atStart, served, removalFailed>>
  /\ UNCHANGED peer

\* lines 1039-1045 with a replace pass that copies nothing
CopyNothing(S) ==
  /\ pc = "copy"
  /\ log' = Append(log, Event("copy-pass", ""))
  /\ pc' = "notify"
  /\ UNCHANGED <<runs, env, world, opts, lastCheckTime, metadata,
                 latestVersion, versionInfo, updatePaths, cleanup, exc,
                 outcome, notified, gate, lastInitiated, ended, atStart,
                 served, removalFailed, faults>>
  /\ UNCHANGED peer

\* lines 1039-1045: the replace pass over every declared path
Copy(S) ==
  /\ pc = "copy"
  /\ LET files == The(versionInfo).upgear.files
         key == The(updatePaths)
         tree == IF key \in DOMAIN extractDirs
                 THEN extractDirs[key] ELSE EmptyTree
     IN
     \E f \in IF options.dryRun THEN {NoFaults(Len(files))}
              ELSE FaultAssignments(Len(files), S.pathFaults \cap {"copy"},
                                    MaxFaults - faults) :
       LET r == CopyUpdatedFiles(install, tree, files, options.dryRun, f)
       IN /\ install' = r.inst
          /\ log' = Append(log, Event("copy-pass", "")) \o r.log
          /\ faults' = faults + Cardinality(Faulty(f))
  /\ pc' = "notify"
  /\ UNCHANGED <<runs, now, env, store, tarballs, extractDirs, opts,
                 lastCheckTime, metadata, latestVersion, versionInfo,
                 updatePaths, cleanup, exc, outcome, notified, gate,
                 lastInitiated, ended, atStart, served, removalFailed>>
  /\ UNCHANGED peer
\* a notification that is held back when the replace pass replaced nothing
NotifySuccessIfReplaced ==
  /\ pc = "notify"
  /\ LET info == The(versionInfo)
         d == DisplayUpdateNotification(
                info.version, options.name, info.upgear.needReinstall,
                info.upgear.changelogUrl, options.dryRun, options.onDisplay)
         replaced == \E i \in 1..Len(log) : log[i].ev = "copy"
     IN IF replaced \/ options.dryRun
        THEN /\ notified' = Append(notified, d.call)
             /\ log' = log \o d.log
             /\ exc' = IF d.throws THEN "Error" ELSE exc
             /\ pc' = IF d.throws THEN "innerCatch" ELSE "innerFinally"
        ELSE /\ pc' = "innerFinally"
             /\ UNCHANGED <<notified, log, exc>>
  /\ UNCHANGED <<runs, env, world, opts, lastCheckTime, metadata,
                 latestVersion, versionInfo, updatePaths, cleanup, outcome,
                 gate, lastInitiated, ended, atStart, served, removalFailed,
                 faults, peer>>

\* lines 1047-1059
NotifySuccess ==
  /\ pc = "notify"
  /\ LET info == The(versionInfo)
         d == DisplayUpdateNotification(
                info.version, options.name, info.upgear.needReinstall,
                info.upgear.changelogUrl, options.dryRun, options.onDisplay)
     IN /\ notified' = Append(notified, d.call)
        /\ log' = log \o d.log
        /\ exc' = IF d.throws THEN "Error" ELSE exc
        /\ pc' = IF d.throws THEN "innerCatch" ELSE "innerFinally"
  /\ UNCHANGED <<runs, env, world, opts, lastCheckTime, metadata,
                 latestVersion, versionInfo, updatePaths, cleanup, outcome,
                 gate, lastInitiated, ended, atStart, served, removalFailed, faults>>
  /\ UNCHANGED peer
\* an inner catch that tells the user about the new version after a failed
\* update
InnerCatchNotifies ==
  /\ pc = "innerCatch"
  /\ LET info == The(versionInfo)
         d == DisplayUpdateNotification(
                info.version, options.name, info.upgear.needReinstall,
                info.upgear.changelogUrl, options.dryRun, {})
     IN /\ notified' = Append(notified, d.call)
        /\ log' = Append(log, Event("warn:update-error", exc)) \o d.log
  /\ exc' = ""
  /\ pc' = "innerFinally"
  /\ UNCHANGED <<runs, env, world, opts, lastCheckTime, metadata,
                 latestVersion, versionInfo, updatePaths, cleanup, outcome,
                 gate, lastInitiated, ended, atStart, served, removalFailed,
                 faults, peer>>

\* lines 1060-1061: the inner catch
InnerCatch ==
  /\ pc = "innerCatch"
  /\ log' = Append(log, Event("warn:update-error", exc))
  /\ exc' = ""
  /\ pc' = "innerFinally"
  /\ UNCHANGED <<runs, env, world, opts, lastCheckTime, metadata,
                 latestVersion, versionInfo, updatePaths, cleanup, outcome,
                 notified, gate, lastInitiated, ended, atStart, served, removalFailed, faults>>
  /\ UNCHANGED peer

\* cleanupTemporaryFiles that removes nothing
CleanupNothing(files, dirs, paths, dryRun, fault) ==
  [tarballs |-> files, extractDirs |-> dirs, log |-> <<>>, failed |-> FALSE]

\* cleanupTemporaryFiles(paths, logger, dryRun). fault: "none", "unlink"
\* (unlinkSync of the archive throws: caught, and the directory is not
\* reached) or "rmdir" (deleteDirRecursive fails, silently).
CleanupTemporaryFiles(files, dirs, paths, dryRun, fault) ==
  IF dryRun \/ paths = {}
  THEN [tarballs |-> files, extractDirs |-> dirs, log |-> <<>>,
        failed |-> FALSE]
  ELSE LET key == The(paths) IN
       IF key \in DOMAIN files /\ fault = "unlink"
       THEN [tarballs |-> files, extractDirs |-> dirs,
             log |-> <<Event("cleanup", ""), Event("warn:cleanup", "")>>,
             failed |-> TRUE]
       ELSE [tarballs |-> Without(files, key),
             extractDirs |-> IF fault = "rmdir" THEN dirs
                             ELSE Without(dirs, key),
             log |-> <<Event("cleanup", "")>>,
             failed |-> (key \in DOMAIN dirs /\ fault = "rmdir")]

\* lines 1062-1068: the inner finally
InnerFinally(S) ==
  /\ pc = "innerFinally"
  /\ IF cleanup.tempFilesCreated /\ cleanup.paths # {}
     THEN \E fault \in S.cleanupFaults :
            LET r == CleanupTemporaryFiles(tarballs, extractDirs,
                                           cleanup.paths, options.dryRun, fault)
            IN /\ fault # "none" => faults < MaxFaults /\ r.failed
               /\ tarballs' = r.tarballs
               /\ extractDirs' = r.extractDirs
               /\ log' = log \o r.log
               /\ removalFailed' = (removalFailed \/ r.failed)
               /\ faults' = faults + Failed(r.failed)
               /\ cleanup' = NoCleanup
     ELSE UNCHANGED <<tarballs, extractDirs, log, removalFailed, faults,
                      cleanup>>
  /\ pc' = IF exc # "" THEN "outerCatch" ELSE "outerFinally"
  /\ UNCHANGED <<runs, now, env, store, install, opts, lastCheckTime,
                 metadata, latestVersion, versionInfo, updatePaths, exc,
                 outcome, notified, gate, lastInitiated, ended, atStart, served>>
  /\ UNCHANGED peer

\* the outer catch, rethrowing
OuterCatchRethrows ==
  /\ pc = "outerCatch"
  /\ pc' = "outerFinally"
  /\ UNCHANGED <<runs, env, world, opts, lastCheckTime, metadata,
                 latestVersion, versionInfo, updatePaths, cleanup, exc,
                 outcome, log, notified, gate, lastInitiated, ended, atStart, served,
                 removalFailed, faults>>
  /\ UNCHANGED peer

\* lines 1069-1071: the outer catch
OuterCatch ==
  /\ pc = "outerCatch"
  /\ log' = Append(log, Event("warn:check-error", exc))
  /\ exc' = ""
  /\ pc' = "outerFinally"
  /\ UNCHANGED <<runs, env, world, opts, lastCheckTime, metadata,
                 latestVersion, versionInfo, updatePaths, cleanup, outcome,
                 notified, gate, lastInitiated, ended, atStart, served, removalFailed, faults>>
  /\ UNCHANGED peer

\* the warnings checkAndUpdate and its helpers log
Warnings ==
  {"warn:fetch", "warn:no-metadata", "warn:no-channel", "warn:invalid-version",
   "warn:no-policy", "warn:backup", "warn:copy", "warn:source-missing",
   "warn:update-error", "warn:check-error", "warn:cleanup"}

\* whether the steps l include the step ev
Logged(l, ev) == \E i \in 1..Len(l) : l[i].ev = ev

\* how an invocation with the steps l ended: without asking the registry,
\* with a warning, or cleanly
Ending(l) ==
  IF ~Logged(l, "registry") THEN "skipped"
  ELSE IF \E w \in Warnings : Logged(l, w) THEN "failed"
  ELSE "completed"

\* lines 1072-1079: the outer finally, and the end of the call: the promise
\* resolves unless an exception is still in flight
OuterFinally(S) ==
  /\ pc = "outerFinally"
  /\ IF cleanup.tempFilesCreated /\ cleanup.paths # {}
     THEN \E fault \in S.cleanupFaults :
            LET r == CleanupTemporaryFiles(tarballs, extractDirs,
                                           cleanup.paths, options.dryRun, fault)
            IN /\ fault # "none" => faults < MaxFaults /\ r.failed
               /\ tarballs' = r.tarballs
               /\ extractDirs' = r.extractDirs
               /\ log' = log \o r.log
               /\ removalFailed' = (removalFailed \/ r.failed)
               /\ faults' = faults + Failed(r.failed)
     ELSE UNCHANGED <<tarballs, extractDirs, log, removalFailed, faults>>
  /\ outcome' = IF exc = "" THEN "returned" ELSE "rejected"
  /\ ended' = Append(ended, Ending(log))
  /\ pc' = "done"
  /\ UNCHANGED <<runs, now, env, store, install, opts, lastCheckTime,
                 metadata, latestVersion, versionInfo, updatePaths, cleanup,
                 exc, notified, gate, lastInitiated, atStart, served>>
  /\ UNCHANGED peer
\* ------------------------------------------------------------------------
\* A second invocation at the same time
\*
\* Another call of checkAndUpdate, in this process or in another one, that
\* shares the temporary directory and the clock. Of its steps, the ones
\* that touch the temporary directory are modelled: createTempPaths, the
\* download, the extraction, the removal of the archive and the cleanup.
\* ------------------------------------------------------------------------

\* the packages and versions the second invocation updates to
PeerNames == {"my-cli", "my_cli", "other-cli"}
PeerVersions == {V_1_1_0, V_2_0_0}

\* the archive the second invocation downloads
PeerArchive == Tree("dir", FALSE, NoPayload,
                    [p \in Paths |-> IF p = "package.json"
                                     THEN FileNode("peer") ELSE NoNode])

\* lines 996-1001 of the second invocation
PeerMakeTempPaths ==
  /\ peer.pc = "off"
  /\ pc \notin {"idle", "done"}
  /\ \E name \in PeerNames, version \in PeerVersions :
       peer' = [pc |-> "download", name |-> name, version |-> version,
                at |-> now,
                paths |-> {CreateTempPaths(name, version, now)},
                data |-> peer.data]
  /\ UNCHANGED <<pc, runs, now, env, store, install, tarballs, extractDirs,
                 opts, lastCheckTime, metadata, latestVersion, versionInfo,
                 updatePaths, cleanup, exc, outcome, log, notified, gate,
                 lastInitiated, ended, atStart, served, removalFailed, faults>>

\* lines 1004-1014 of the second invocation: createWriteStream and pipeline
\* write the archive, over whatever file has that path
PeerDownload ==
  /\ peer.pc = "download"
  /\ tarballs' = With(tarballs, The(peer.paths), PeerArchive)
  /\ peer' = [peer EXCEPT !.pc = "extract"]
  /\ UNCHANGED <<pc, runs, now, env, store, install, extractDirs,
                 opts, lastCheckTime, metadata, latestVersion, versionInfo,
                 updatePaths, cleanup, exc, outcome, log, notified, gate,
                 lastInitiated, ended, atStart, served, removalFailed, faults>>

\* lines 1016-1021 of the second invocation: tar unpacks the file at its
\* archive path into its extraction directory, and fails without the file
PeerExtract ==
  /\ peer.pc = "extract"
  /\ LET key == The(peer.paths)
         old == IF key \in DOMAIN extractDirs
                THEN extractDirs[key] ELSE EmptyTree
     IN IF key \in DOMAIN tarballs
        THEN /\ extractDirs' =
                  With(extractDirs, key, MergeTree(old, tarballs[key]))
             /\ peer' = [peer EXCEPT !.pc = "rmTarball"]
        ELSE /\ extractDirs' = With(extractDirs, key, old)
             /\ peer' = [peer EXCEPT !.pc = "cleanup"]
  /\ UNCHANGED <<pc, runs, now, env, store, install, tarballs,
                 opts, lastCheckTime, metadata, latestVersion, versionInfo,
                 updatePaths, cleanup, exc, outcome, log, notified, gate,
                 lastInitiated, ended, atStart, served, removalFailed, faults>>

\* lines 1023-1026 of the second invocation
PeerRemoveTarball ==
  /\ peer.pc = "rmTarball"
  /\ tarballs' = Without(tarballs, The(peer.paths))
  /\ peer' = [peer EXCEPT !.pc = "cleanup"]
  /\ UNCHANGED <<pc, runs, now, env, store, install, extractDirs,
                 opts, lastCheckTime, metadata, latestVersion, versionInfo,
                 updatePaths, cleanup, exc, outcome, log, notified, gate,
                 lastInitiated, ended, atStart, served, removalFailed, faults>>

\* lines 1062-1068 of the second invocation
PeerCleanup ==
  /\ peer.pc = "cleanup"
  /\ LET r == CleanupTemporaryFiles(tarballs, extractDirs, peer.paths,
                                    FALSE, "none")
     IN /\ tarballs' = r.tarballs
        /\ extractDirs' = r.extractDirs
  /\ peer' = [peer EXCEPT !.pc = "done"]
  /\ UNCHANGED <<pc, runs, now, env, store, install,
                 opts, lastCheckTime, metadata, latestVersion, versionInfo,
                 updatePaths, cleanup, exc, outcome, log, notified, gate,
                 lastInitiated, ended, atStart, served, removalFailed, faults>>

PeerNext ==
  \/ PeerMakeTempPaths
  \/ PeerDownload
  \/ PeerExtract
  \/ PeerRemoveTarball
  \/ PeerCleanup
\* lines 261-270 of an invocation for another package, in another process:
\* writeCurrentTimestamp has read the store file and parsed it
PeerLoadStamp ==
  /\ peer.pc = "off"
  /\ peer' = [peer EXCEPT !.pc = "loaded", !.name = "other-cli",
                          !.at = now, !.data = LoadedData(store)]
  /\ UNCHANGED <<pc, runs, now, env, store, install, tarballs, extractDirs,
                 opts, lastCheckTime, metadata, latestVersion, versionInfo,
                 updatePaths, cleanup, exc, outcome, log, notified, gate,
                 lastInitiated, ended, atStart, served, removalFailed, faults>>

\* lines 272-274 of that invocation: its entry is set in the data it has
\* loaded and the file is written over whatever it holds by now
PeerWriteStamp ==
  /\ peer.pc = "loaded"
  /\ store' = ObjectStore(Put(peer.data, peer.name, now))
  /\ peer' = [peer EXCEPT !.pc = "stamped"]
  /\ lastInitiated' =
       IF ReadLastCheckTimestamp(store', options.name, FALSE)
            = ReadLastCheckTimestamp(store, options.name, FALSE)
       THEN lastInitiated ELSE 0
  /\ UNCHANGED <<pc, runs, now, env, install, tarballs, extractDirs,
                 opts, lastCheckTime, metadata, latestVersion, versionInfo,
                 updatePaths, cleanup, exc, outcome, log, notified, gate,
                 ended, atStart, served, removalFailed, faults>>

NextIn(S) ==
  \/ Start(S)
  \/ CheckCI(S)
  \/ EvalGate(S)
  \/ WriteStamp(S)
  \/ Fetch(S)
  \/ ReadMetadata(S)
  \/ ResolveChannel
  \/ Decide
  \/ ExtractPolicy
  \/ ReinstallCheck
  \/ MakeTempPaths
  \/ DownloadTarball(S)
  \/ StreamTarball(S)
  \/ ExtractTarball(S)
  \/ RemoveTarball(S)
  \/ AssertInstallDir
  \/ Backup(S)
  \/ Copy(S)
  \/ NotifySuccess
  \/ InnerCatch
  \/ InnerFinally(S)
  \/ OuterCatch
  \/ OuterFinally(S)

\* The steps without a timer: a request whose response never arrives is
\* never aborted, so nothing makes the two requests settle
StepsUntimed(S) ==
  \/ CheckCI(S)
  \/ EvalGate(S)
  \/ WriteStamp(S)
  \/ ResolveChannel
  \/ Decide
  \/ ExtractPolicy
  \/ ReinstallCheck
  \/ MakeTempPaths
  \/ ExtractTarball(S)
  \/ RemoveTarball(S)
  \/ AssertInstallDir
  \/ Backup(S)
  \/ Copy(S)
  \/ NotifySuccess
  \/ InnerCatch
  \/ InnerFinally(S)
  \/ OuterCatch
  \/ OuterFinally(S)

\* The steps that happen by themselves once an invocation is under way:
\* synchronous code and the continuations of awaits on local work run to
\* their end, and the two requests settle because their abort timers fire
\* when no response arrives (lines 318 and 513-514). The two body reads,
\* ReadMetadata and StreamTarball, are not among them: their timers were
\* cleared (lines 329-332 and 524-527), so they settle only when the server
\* finishes or breaks the body.
Steps(S) ==
  \/ CheckCI(S)
  \/ EvalGate(S)
  \/ WriteStamp(S)
  \/ Fetch(S)
  \/ ResolveChannel
  \/ Decide
  \/ ExtractPolicy
  \/ ReinstallCheck
  \/ MakeTempPaths
  \/ DownloadTarball(S)
  \/ ExtractTarball(S)
  \/ RemoveTarball(S)
  \/ AssertInstallDir
  \/ Backup(S)
  \/ Copy(S)
  \/ NotifySuccess
  \/ InnerCatch
  \/ InnerFinally(S)
  \/ OuterCatch
  \/ OuterFinally(S)


\* ------------------------------------------------------------------------
\* Input spaces
\* ------------------------------------------------------------------------

Package == "my-cli"
OtherPackage == "other-cli"

\* registry answers that are not a document
FailedResponses ==
  {[status |-> st, body |-> Document({}, {})] :
     st \in {"http", "network", "timeout", "badjson", "ok-null"}}

OkResponse(doc) == [status |-> "ok", body |-> doc]

\* a document whose channel ch points at version v, with record rec for v
DocumentFor(ch, v, rec) ==
  Document({[c \in {ch} |-> v]}, {[x \in {v} |-> rec]})

\* the ways the record of the resolved version can lack policy data
BrokenRecords ==
  {VersionRecord({}, {Policy({}, {}, {})}),
   VersionRecord({[tarball |-> {}]}, {Policy({}, {}, {})}),
   VersionRecord(GoodDist, {})}

PolicyRecords(policies) == {VersionRecord(GoodDist, {p}) : p \in policies}

\* documents that end the run before the version decision
EarlyDocuments ==
  {Document({}, {}),
   Document({EmptyMap}, {EmptyMap}),
   DocumentFor("next", V_1_1_0, VersionRecord(GoodDist, {}))}

\* the archive that wraps its payload in 'package'
WrappedArchive ==
  Tree("dir", FALSE, NoPayload,
       [p \in Paths |->
          CASE p = "dist" -> DirNode([ch \in Children |->
                                        IF ch = "a.js" THEN "new" ELSE ""])
            [] p = "package.json" -> FileNode("new")
            [] OTHER -> NoNode])

\* the same payload at the root, without a wrapper
FlatArchive == Tree("none", FALSE, WrappedArchive.pkg, NoPayload)
\* a payload at the extraction root whose content differs from the one
\* under 'package'
RootPayload ==
  [p \in Paths |->
     CASE p = "dist" -> DirNode([ch \in Children |->
                                   IF ch = "a.js" THEN "flat" ELSE ""])
       [] p = "package.json" -> FileNode("flat")
       [] OTHER -> NoNode]

\* an archive with entries at the root and under 'package', whose
\* 'package' folder lacks 'dist'
MixedArchive ==
  Tree("dir", FALSE, RootPayload,
       [WrappedArchive.pkg EXCEPT !["dist"] = NoNode])

\* an archive whose entry 'package' is a regular file, with the payload at
\* the root
FileWrappedArchive == Tree("file", FALSE, RootPayload, NoPayload)

\* an archive that wraps its payload in a folder of another name; only
\* 'package.json' is also at the root
OtherWrappedArchive ==
  Tree("none", TRUE, [RootPayload EXCEPT !["dist"] = NoNode], NoPayload)
\* an archive with nothing but a folder of another name: no declared path
\* is at the root or under 'package'
ForeignArchive == Tree("none", TRUE, NoPayload, NoPayload)

\* an installation with both core paths and no backups
PlainInstall ==
  [p \in Paths \cup BakPaths \cup Dirs |->
     CASE p = "dist" -> DirNode([ch \in Children |->
                                   IF ch = "b.js" THEN "old" ELSE ""])
       [] p = "package.json" -> FileNode("old")
       [] OTHER -> NoNode]

\* an installation that an earlier update has left backups in
UpdatedInstall ==
  [PlainInstall EXCEPT !["dist.bak"] = DirNode([ch \in Children |-> "stale"]),
                       !["package.json.bak"] = FileNode("stale"),
                       !["bin"] = FileNode("old")]

\* an installation whose stale backups are of the other kind: a regular
\* file where the path is a directory, and a directory where it is a file
CrossedInstall ==
  [PlainInstall EXCEPT !["dist.bak"] = FileNode("stale"),
                       !["package.json.bak"] =
                         DirNode([ch \in Children |-> "stale"]),
                       !["bin"] = FileNode("old")]

\* an archive that also ships 'bin'
FullArchive ==
  [WrappedArchive EXCEPT !.pkg["bin"] = FileNode("new")]
\* an archive that ships 'bin' as a directory and the nested 'lib/cli.js'
NestedArchive ==
  [WrappedArchive EXCEPT
     !.pkg["bin"] = DirNode([ch \in Children |->
                               IF ch = "a.js" THEN "new" ELSE ""]),
     !.pkg["lib/cli.js"] = FileNode("new")]

\* an installation with 'lib/cli.js' in place and both entries of 'dist'
LibInstall ==
  [UpdatedInstall EXCEPT !["dist"] = DirNode([ch \in Children |-> "old"]),
                         !["lib"] = DirNode(NoEntries),
                         !["lib/cli.js"] = FileNode("old")]

\* an installation in which 'lib' is a regular file
BlockedInstall == [UpdatedInstall EXCEPT !["lib"] = FileNode("old")]

\* an installation in which 'lib/cli.js' is a directory
CrowdedInstall ==
  [LibInstall EXCEPT !["lib/cli.js"] = DirNode([ch \in Children |-> "old"])]
\* an installation that has lost 'bin' and still has its backup
OrphanInstall ==
  [UpdatedInstall EXCEPT !["bin"] = NoNode,
                         !["bin.bak"] = FileNode("stale")]

AllEnvs ==
  {NoEnv, [NoEnv EXCEPT !["CI"] = "0"]}
  \cup {[NoEnv EXCEPT ![v] = "true"] : v \in CIVars}

\* the release 1.1.0 on the channel 'latest' with the update policy p
Release(p) == OkResponse(DocumentFor("latest", V_1_1_0,
                                     VersionRecord(GoodDist, {p})))

\* the invocations of one behaviour of the pipeline, of the version decision
\* and of the CI check
MaxRuns == 1
\* the invocations of one behaviour of the interval gate
GateRuns == 2

\* The pipeline: every stage and its failures, with a narrow gate
PipelineSpace ==
  [opts |-> [name : {Package}, version : {V_1_0_0, V_word},
             registryBase : {{}}, channel : {{}}, skipOnCI : {{}},
             updateCheckIntervalMs : {{2}},
             dryRun : {{}, {TRUE}}, installDir : {{}, {"/cli"}},
             onDisplay : {{}, {"ok"}, {"throws"}}],
   envs |-> {NoEnv, [NoEnv EXCEPT !["CI"] = "true"]},
   stores |-> {AbsentStore, ObjectStore([p \in {Package} |-> 1])},
   installs |-> {PlainInstall, UpdatedInstall},
   responses |->
     FailedResponses
     \cup {OkResponse(d) : d \in EarlyDocuments}
     \cup {OkResponse(DocumentFor("latest", V_1_0_0,
                                  VersionRecord(GoodDist, {})))}
     \cup {OkResponse(DocumentFor("latest", V_1_1_0, r)) : r \in BrokenRecords}
     \cup {Release(Policy(f, n, {ChangelogUrl})) :
             f \in {{}, {<<"bin">>}}, n \in {{}, {TRUE}}}
     \cup {OkResponse(Document({[c \in {"latest"} |-> V_1_1_0]}, {})),
           OkResponse(Document({[c \in {"latest"} |-> V_1_1_0]}, {EmptyMap}))},
   archives |-> {WrappedArchive, FlatArchive, EmptyTree},
   downloads |-> {"ok", "early", "mid"},
   extractFaults |-> {"none", "mkdir", "tar"},
   cleanupFaults |-> {"none", "unlink", "rmdir"},
   pathFaults |-> {"remove", "copy"},
   tickAt |-> {},
   io |-> BOOLEAN,
   waits |-> {0},
   runs |-> MaxRuns]

\* The stages after the version decision, as narrow as they can be for every
\* stage to happen
NarrowPipeline ==
  [installs |-> {PlainInstall},
   archives |-> {WrappedArchive},
   downloads |-> {"ok"},
   extractFaults |-> {"none"},
   cleanupFaults |-> {"none"},
   pathFaults |-> {}]

\* The interval gate: intervals, stores, times and a sequence of invocations
GateSpace ==
  [opts |-> [name : {Package}, version : {V_1_0_0},
             registryBase : {{}}, channel : {{}}, skipOnCI : {{}},
             updateCheckIntervalMs : {{}, {0}, {-1}, {2}},
             dryRun : {{}, {TRUE}}, installDir : {{"/cli"}},
             onDisplay : {{}}],
   envs |-> {NoEnv},
   stores |-> {AbsentStore, GarbageStore,
               ObjectStore([p \in {Package} |-> 0]),
               ObjectStore([p \in {Package} |-> 1]),
               ObjectStore([p \in {OtherPackage} |-> 1])},
   installs |-> NarrowPipeline.installs,
   responses |->
     {[status |-> "network", body |-> Document({}, {})],
      OkResponse(Document({}, {})),
      OkResponse(DocumentFor("latest", V_1_0_0, VersionRecord(GoodDist, {}))),
      Release(Policy({}, {}, {})),
      Release(Policy({}, {TRUE}, {}))},
   archives |-> NarrowPipeline.archives,
   downloads |-> NarrowPipeline.downloads,
   extractFaults |-> NarrowPipeline.extractFaults,
   cleanupFaults |-> NarrowPipeline.cleanupFaults,
   pathFaults |-> NarrowPipeline.pathFaults,
   tickAt |-> {"stamp"},
   io |-> BOOLEAN,
   waits |-> {0, 1, 2},
   runs |-> GateRuns]

\* The CI check: every recognized variable and every value of skipOnCI
CISpace ==
  [opts |-> [name : {Package}, version : {V_1_0_0},
             registryBase : {{}}, channel : {{}},
             skipOnCI : {{}, {TRUE}, {FALSE}},
             updateCheckIntervalMs : {{2}},
             dryRun : {{}, {TRUE}}, installDir : {{"/cli"}},
             onDisplay : {{}, {"throws"}}],
   envs |-> AllEnvs,
   stores |-> {AbsentStore, ObjectStore([p \in {Package} |-> 1])},
   installs |-> NarrowPipeline.installs,
   responses |->
     {[status |-> "network", body |-> Document({}, {})],
      Release(Policy({}, {}, {})),
      Release(Policy({}, {TRUE}, {}))},
   archives |-> NarrowPipeline.archives,
   downloads |-> NarrowPipeline.downloads,
   extractFaults |-> NarrowPipeline.extractFaults,
   cleanupFaults |-> NarrowPipeline.cleanupFaults,
   pathFaults |-> NarrowPipeline.pathFaults,
   tickAt |-> {},
   io |-> BOOLEAN,
   waits |-> {0, 2},
   runs |-> MaxRuns]

\* the version strings the running version and the channel range over
Versions ==
  {V_1_0_0, V_1_1_0, V_0_9_9, V_2_0_0, V_1_1_0_alpha, V_1_1_0_beta,
   V_1_1_0_beta_1, V_1_1_0_beta_2, V_1_1_0_num, V_1_1_0_build, V_v1_1_0,
   V_1_0, V_word, V_1_1_0_dash, V_01_0_0}

\* The version decision: every pair of version strings
VersionSpace ==
  [opts |-> [name : {Package}, version : Versions,
             registryBase : {{}}, channel : {{}}, skipOnCI : {{}},
             updateCheckIntervalMs : {{0}},
             dryRun : {{}}, installDir : {{"/cli"}},
             onDisplay : {{}, {"throws"}}],
   envs |-> {NoEnv},
   stores |-> {AbsentStore},
   installs |-> NarrowPipeline.installs,
   responses |->
     {OkResponse(DocumentFor("latest", v,
                             VersionRecord(GoodDist, {Policy({}, n, {})}))) :
        v \in Versions, n \in {{}, {TRUE}}},
   archives |-> NarrowPipeline.archives,
   downloads |-> NarrowPipeline.downloads,
   extractFaults |-> NarrowPipeline.extractFaults,
   cleanupFaults |-> NarrowPipeline.cleanupFaults,
   pathFaults |-> NarrowPipeline.pathFaults,
   tickAt |-> {},
   io |-> {FALSE},
   waits |-> {0},
   runs |-> MaxRuns]

\* The backup and replace passes: file lists with extra paths and with a
\* path listed twice, installations with and without stale backups, and
\* per-path faults
FilesSpace ==
  [opts |-> [name : {Package}, version : {V_1_0_0},
             registryBase : {{}}, channel : {{}}, skipOnCI : {{}},
             updateCheckIntervalMs : {{0}},
             dryRun : {{}}, installDir : {{"/cli"}},
             onDisplay : {{}, {"throws"}}],
   envs |-> {NoEnv},
   stores |-> {AbsentStore},
   installs |-> {PlainInstall, UpdatedInstall, CrossedInstall},
   responses |->
     {Release(Policy(f, {}, {})) :
        f \in {{}, {<<"bin">>}, {<<"dist">>}, {<<"bin", "package.json">>}}}
     \cup {Release(Policy({}, {TRUE}, {}))},
   archives |-> {WrappedArchive, FullArchive},
   downloads |-> NarrowPipeline.downloads,
   extractFaults |-> NarrowPipeline.extractFaults,
   cleanupFaults |-> NarrowPipeline.cleanupFaults,
   pathFaults |-> {"remove", "copy"},
   tickAt |-> {},
   io |-> {FALSE},
   waits |-> {0},
   runs |-> MaxRuns]
\* The source root of the replace pass: archives with and without the
\* folder 'package', with a regular file of that name and with a folder
\* of another name
SourceSpace ==
  [opts |-> [name : {Package}, version : {V_1_0_0},
             registryBase : {{}}, channel : {{}}, skipOnCI : {{}},
             updateCheckIntervalMs : {{0}},
             dryRun : {{}, {TRUE}}, installDir : {{"/cli"}},
             onDisplay : {{}, {"throws"}}],
   envs |-> {NoEnv},
   stores |-> {AbsentStore},
   installs |-> {PlainInstall, UpdatedInstall},
   responses |->
     {Release(Policy(f, {}, {})) : f \in {{}, {<<"bin">>}}}
     \cup {Release(Policy({}, {TRUE}, {}))},
   archives |-> {WrappedArchive, FlatArchive, FullArchive, MixedArchive,
                 FileWrappedArchive, OtherWrappedArchive, ForeignArchive},
   downloads |-> NarrowPipeline.downloads,
   extractFaults |-> NarrowPipeline.extractFaults,
   cleanupFaults |-> NarrowPipeline.cleanupFaults,
   pathFaults |-> {"copy"},
   tickAt |-> {},
   io |-> {FALSE},
   waits |-> {0},
   runs |-> MaxRuns]
\* the longest file list a policy declares
MaxFiles == 2

\* the file lists a policy declares: every list of at most MaxFiles paths
FileLists == UNION {[1..n -> Paths] : n \in 0..MaxFiles}

\* The update policy: policies without a file list and with every file
\* list, with and without a required reinstall
PolicySpace ==
  [opts |-> [name : {Package}, version : {V_1_0_0},
             registryBase : {{}}, channel : {{}}, skipOnCI : {{}},
             updateCheckIntervalMs : {{0}},
             dryRun : {{}}, installDir : {{"/cli"}},
             onDisplay : {{}, {"throws"}}],
   envs |-> {NoEnv},
   stores |-> {AbsentStore},
   installs |-> {UpdatedInstall},
   responses |->
     {Release(Policy(f, n, {})) :
        f \in {{}} \cup {{l} : l \in FileLists}, n \in {{}, {TRUE}}},
   archives |-> {FullArchive},
   downloads |-> NarrowPipeline.downloads,
   extractFaults |-> NarrowPipeline.extractFaults,
   cleanupFaults |-> NarrowPipeline.cleanupFaults,
   pathFaults |-> NarrowPipeline.pathFaults,
   tickAt |-> {},
   io |-> {FALSE},
   waits |-> {0},
   runs |-> MaxRuns]
\* The replace of one path: directories and regular files onto
\* directories, regular files and nothing, below the installation
\* directory and one level deeper
ReplaceSpace ==
  [opts |-> [name : {Package}, version : {V_1_0_0},
             registryBase : {{}}, channel : {{}}, skipOnCI : {{}},
             updateCheckIntervalMs : {{0}},
             dryRun : {{}, {TRUE}}, installDir : {{"/cli"}},
             onDisplay : {{}, {"throws"}}],
   envs |-> {NoEnv},
   stores |-> {AbsentStore},
   installs |-> {PlainInstall, UpdatedInstall, LibInstall, BlockedInstall,
                 CrowdedInstall},
   responses |->
     {Release(Policy({f}, {}, {})) :
        f \in {<<"bin">>, <<"lib/cli.js">>, <<"bin", "lib/cli.js">>}}
     \cup {Release(Policy({}, {TRUE}, {}))},
   archives |-> {NestedArchive},
   downloads |-> NarrowPipeline.downloads,
   extractFaults |-> NarrowPipeline.extractFaults,
   cleanupFaults |-> NarrowPipeline.cleanupFaults,
   pathFaults |-> {"copy"},
   tickAt |-> {},
   io |-> {FALSE},
   waits |-> {0},
   runs |-> MaxRuns]
\* The backup of one path: targets that exist and that are missing, with
\* previous backups of either kind and with none
BackupSpace ==
  [opts |-> [name : {Package}, version : {V_1_0_0},
             registryBase : {{}}, channel : {{}}, skipOnCI : {{}},
             updateCheckIntervalMs : {{0}},
             dryRun : {{}, {TRUE}}, installDir : {{"/cli"}},
             onDisplay : {{}, {"throws"}}],
   envs |-> {NoEnv},
   stores |-> {AbsentStore},
   installs |-> {PlainInstall, UpdatedInstall, CrossedInstall, OrphanInstall},
   responses |->
     {Release(Policy(f, {}, {})) : f \in {{}, {<<"bin">>}}}
     \cup {Release(Policy({}, {TRUE}, {}))},
   archives |-> {FullArchive},
   downloads |-> NarrowPipeline.downloads,
   extractFaults |-> NarrowPipeline.extractFaults,
   cleanupFaults |-> NarrowPipeline.cleanupFaults,
   pathFaults |-> {"remove", "copy"},
   tickAt |-> {},
   io |-> {FALSE},
   waits |-> {0},
   runs |-> MaxRuns]
\* Two invocations at the same time: one update, with the clock free to
\* advance before its scratch paths are named
SharedSpace ==
  [opts |-> [name : {Package}, version : {V_1_0_0},
             registryBase : {{}}, channel : {{}}, skipOnCI : {{}},
             updateCheckIntervalMs : {{0}},
             dryRun : {{}}, installDir : {{"/cli"}},
             onDisplay : {{}, {"throws"}}],
   envs |-> {NoEnv},
   stores |-> {AbsentStore},
   installs |-> NarrowPipeline.installs,
   responses |-> {Release(Policy({}, {}, {})),
                  Release(Policy({}, {TRUE}, {}))},
   archives |-> NarrowPipeline.archives,
   downloads |-> NarrowPipeline.downloads,
   extractFaults |-> NarrowPipeline.extractFaults,
   cleanupFaults |-> NarrowPipeline.cleanupFaults,
   pathFaults |-> NarrowPipeline.pathFaults,
   tickAt |-> {"paths"},
   io |-> {FALSE},
   waits |-> {0},
   runs |-> MaxRuns]

\* a document with both channels: 'latest' at 1.0.0 and 'next' at 1.1.0,
\* whose record is rec
TwoChannels(rec) ==
  Document({[c \in {"latest", "next"} |->
               IF c = "latest" THEN V_1_0_0 ELSE V_1_1_0]},
           {[x \in {V_1_1_0} |-> rec]})

\* The registry: every way the request fails, channels present and
\* missing, records with and without policy data
RegistrySpace ==
  [opts |-> [name : {Package}, version : {V_1_0_0},
             registryBase : {{}}, channel : {{}, {"next"}}, skipOnCI : {{}},
             updateCheckIntervalMs : {{0}},
             dryRun : {{}, {TRUE}}, installDir : {{"/cli"}},
             onDisplay : {{}, {"ok"}, {"throws"}}],
   envs |-> {NoEnv},
   stores |-> {AbsentStore},
   installs |-> NarrowPipeline.installs,
   responses |->
     FailedResponses
     \cup {OkResponse(d) : d \in EarlyDocuments}
     \cup {OkResponse(DocumentFor(ch, V_1_1_0, r)) :
             ch \in {"latest", "next"},
             r \in BrokenRecords
                   \cup PolicyRecords({Policy({}, n, c) :
                                         n \in {{}, {TRUE}, {FALSE}},
                                         c \in {{}, {ChangelogUrl}}})}
     \cup {OkResponse(TwoChannels(r)) :
             r \in BrokenRecords \cup PolicyRecords({Policy({}, {}, {})})}
     \cup {OkResponse(Document({[c \in {"latest"} |-> V_1_1_0]}, {})),
           OkResponse(Document({[c \in {"latest"} |-> V_1_1_0]}, {EmptyMap})),
           OkResponse(Document({[c \in {"latest"} |-> V_2_0_0]},
                               {[x \in {V_1_1_0} |->
                                   VersionRecord(GoodDist,
                                                 {Policy({}, {}, {})})]}))},
   archives |-> NarrowPipeline.archives,
   downloads |-> NarrowPipeline.downloads,
   extractFaults |-> NarrowPipeline.extractFaults,
   cleanupFaults |-> NarrowPipeline.cleanupFaults,
   pathFaults |-> NarrowPipeline.pathFaults,
   tickAt |-> {},
   io |-> BOOLEAN,
   waits |-> {0},
   runs |-> MaxRuns]

\* Termination: every exit of the pipeline, with requests that fail, succeed
\* or are followed by a body
LiveSpace ==
  [opts |-> [name : {Package}, version : {V_1_0_0},
             registryBase : {{}}, channel : {{}}, skipOnCI : {{}},
             updateCheckIntervalMs : {{0}},
             dryRun : {{}, {TRUE}}, installDir : {{}, {"/cli"}},
             onDisplay : {{}, {"throws"}}],
   envs |-> {NoEnv},
   stores |-> {AbsentStore},
   installs |-> NarrowPipeline.installs,
   responses |->
     {[status |-> st, body |-> Document({}, {})] :
        st \in {"timeout", "badjson"}}
     \cup {OkResponse(Document({}, {})),
           Release(Policy({}, {}, {})),
           Release(Policy({}, {TRUE}, {}))},
   archives |-> {WrappedArchive, EmptyTree},
   downloads |-> {"ok", "early", "mid"},
   extractFaults |-> NarrowPipeline.extractFaults,
   cleanupFaults |-> NarrowPipeline.cleanupFaults,
   pathFaults |-> NarrowPipeline.pathFaults,
   tickAt |-> {},
   io |-> {FALSE},
   waits |-> {0},
   runs |-> MaxRuns]

\* a registry other than the default one
MirrorBase == "https://mirror.example"

\* The options: each optional option omitted and supplied, with the values
\* that an absent option could be confused with (false, 0)
OptionsSpace ==
  [opts |-> [name : {Package}, version : {V_1_0_0},
             registryBase : {{}, {MirrorBase}}, channel : {{}, {"next"}},
             skipOnCI : {{}, {TRUE}, {FALSE}},
             updateCheckIntervalMs : {{}, {0}, {2}},
             dryRun : {{}, {TRUE}, {FALSE}}, installDir : {{"/cli"}},
             onDisplay : {{}, {"throws"}}],
   envs |-> {NoEnv, [NoEnv EXCEPT !["CI"] = "true"]},
   stores |-> {AbsentStore, ObjectStore([p \in {Package} |-> 1])},
   installs |-> NarrowPipeline.installs,
   responses |->
     {[status |-> "network", body |-> Document({}, {})],
      OkResponse(Document({}, {})),
      OkResponse(TwoChannels(VersionRecord(GoodDist, {Policy({}, {}, {})}))),
      Release(Policy({}, {TRUE}, {}))},
   archives |-> NarrowPipeline.archives,
   downloads |-> NarrowPipeline.downloads,
   extractFaults |-> NarrowPipeline.extractFaults,
   cleanupFaults |-> NarrowPipeline.cleanupFaults,
   pathFaults |-> NarrowPipeline.pathFaults,
   tickAt |-> {},
   io |-> {FALSE},
   waits |-> {0, 2},
   runs |-> MaxRuns]

Init == InitIn(PipelineSpace)
Next == NextIn(PipelineSpace)
Spec == Init /\ [][Next]_vars

InitGate == InitIn(GateSpace)
NextGate == NextIn(GateSpace) \/ Tick(GateSpace)
SpecGate == InitGate /\ [][NextGate]_vars

InitCI == InitIn(CISpace)
NextCI == NextIn(CISpace)
SpecCI == InitCI /\ [][NextCI]_vars

InitVersion == InitIn(VersionSpace)
NextVersion == NextIn(VersionSpace)
SpecVersion == InitVersion /\ [][NextVersion]_vars

InitFiles == InitIn(FilesSpace)
NextFiles == NextIn(FilesSpace)
SpecFiles == InitFiles /\ [][NextFiles]_vars

InitRegistry == InitIn(RegistrySpace)
NextRegistry == NextIn(RegistrySpace)
SpecRegistry == InitRegistry /\ [][NextRegistry]_vars

InitOptions == InitIn(OptionsSpace)
NextOptions == NextIn(OptionsSpace)
SpecOptions == InitOptions /\ [][NextOptions]_vars
InitSource == InitIn(SourceSpace)
NextSource == NextIn(SourceSpace)
SpecSource == InitSource /\ [][NextSource]_vars
InitPolicy == InitIn(PolicySpace)
NextPolicy == NextIn(PolicySpace)
SpecPolicy == InitPolicy /\ [][NextPolicy]_vars
InitReplace == InitIn(ReplaceSpace)
NextReplace == NextIn(ReplaceSpace)
SpecReplace == InitReplace /\ [][NextReplace]_vars
InitBackup == InitIn(BackupSpace)
NextBackup == NextIn(BackupSpace)
SpecBackup == InitBackup /\ [][NextBackup]_vars
InitShared == InitIn(SharedSpace)
NextShared == NextIn(SharedSpace) \/ Tick(SharedSpace) \/ PeerNext
SpecShared == InitShared /\ [][NextShared]_vars
\* The store shared by the packages of one user: files with entries of the
\* package and of another one, writes that fail, and an invocation for the
\* other package in a second process
StoreSpace ==
  [GateSpace EXCEPT
     !.opts = [name : {Package}, version : {V_1_0_0},
               registryBase : {{}}, channel : {{}}, skipOnCI : {{}},
               updateCheckIntervalMs : {{}},
               dryRun : {{}, {TRUE}}, installDir : {{"/cli"}},
               onDisplay : {{}}],
     !.stores = {AbsentStore, GarbageStore,
                 ObjectStore([p \in {OtherPackage} |-> 1]),
                 ObjectStore([p \in {Package, OtherPackage} |-> 1])},
     !.waits = {0},
     !.runs = MaxRuns]

InitStore == InitIn(StoreSpace)
NextStore == NextIn(StoreSpace) \/ Tick(StoreSpace) \/ PeerLoadStamp \/ PeerWriteStamp
SpecStore == InitStore /\ [][NextStore]_vars

\* the pipeline with its scheduling: whatever step of Steps is possible is
\* eventually taken
InitLive == InitIn(LiveSpace)
NextLive == NextIn(LiveSpace)
SpecLive == InitLive /\ [][NextLive]_vars /\ WF_vars(Steps(LiveSpace))

\* ------------------------------------------------------------------------
\* Properties
\* ------------------------------------------------------------------------

\* whether the current invocation has taken the step ev
Did(ev) == Logged(log, ev)

\* whether the current invocation has taken the step ev with the detail arg
DidWith(ev, arg) == \E i \in 1..Len(log) : log[i] = Event(ev, arg)

\* the scratch paths of the current invocation
Key == The(updatePaths)

\* the timestamp the store held for the package when the invocation started
PriorTimestamp ==
  LET st == atStart.store IN
  IF st.kind = "object" /\ options.name \in DOMAIN st.data
  THEN st.data[options.name] ELSE 0

\* a recognized CI variable is set to a non-empty value
CISet == \E v \in CIVars : env[v] # ""

\* ---- C1 ----

\* C1: checkAndUpdate never rejects or throws once it has entered its
\* pipeline: whatever fails, and in whatever combination, the call returns
\* normally, with no exception left in flight.
C1_NeverRejects ==
  /\ outcome # "rejected"
  /\ pc = "done" => outcome = "returned" /\ exc = ""

\* a call that returned although the update failed inside the pipeline and
\* a scratch path could not be removed
C1_Witness ==
  /\ pc = "done"
  /\ outcome = "returned"
  /\ Did("warn:update-error")
  /\ removalFailed

\* ---- C2 ----

\* the reasons for which a run does not reach the backup and replace phase
C2_StoppedEarly ==
  \/ options.skipOnCI /\ CISet
  \/ gate.skipped
  \/ metadata = {}
  \/ latestVersion = <<>>
  \/ DidWith("decide", "no-update")
  \/ versionInfo = {}
  \/ The(versionInfo).upgear.needReinstall
  \/ \E i \in 1..Len(log) : log[i].ev = "download" /\ log[i].arg # "ok"
  \/ \E i \in 1..Len(log) : log[i].ev = "extract" /\ log[i].arg # "ok"
  \/ options.installDir = {}

C3_DirCreated ==
  \E i \in 1..Len(log) :
    log[i].ev = "extract" /\ log[i].arg \in {"ok", "empty", "failed"}

\* what the invocation created of its scratch paths is gone
C3_ScratchGone ==
  /\ Did("tarball-written") => Key \notin DOMAIN tarballs
  /\ C3_DirCreated => Key \notin DOMAIN extractDirs

C4_DryRunTouchesNothing ==
  options.dryRun =>
    /\ Files = atStart
    /\ ~Did("store-write")
    /\ ~Did("download")
    /\ ~Did("tarball-written")

\* a dry run that went through the whole update
C4_Witness ==
  /\ pc = "done"
  /\ options.dryRun
  /\ Did("info:dry-download")
  /\ Did("backup-pass")
  /\ Did("copy-pass")
  /\ Len(notified) = 1

\* ---- C5 ----

\* precedence of two pre-release identifiers: numeric ones by value,
\* alphanumeric ones in ASCII order, numeric ones below alphanumeric ones
C5_IdLess(x, y) ==
  \/ x.t = "num" /\ y.t = "num" /\ x.n < y.n
  \/ x.t = "num" /\ y.t = "id"
  \/ x.t = "id" /\ y.t = "id" /\ IdRank(x.s) < IdRank(y.s)

\* precedence of two pre-release lists (none: a normal version): a
\* pre-release is below the normal version; otherwise the first differing
\* identifier decides, and a list is below its proper extensions
C5_PreLess(p, q) ==
  \/ Len(p) > 0 /\ Len(q) = 0
  \/ /\ Len(p) > 0
     /\ \E k \in 1..Len(q) :
          /\ \A j \in 1..(k - 1) : j <= Len(p) /\ p[j] = q[j]
          /\ k > Len(p) \/ C5_IdLess(p[k], q[k])

\* a is below b under semantic-version precedence
C5_Precedes(a, b) ==
  \/ a.major < b.major
  \/ a.major = b.major /\ a.minor < b.minor
  \/ a.major = b.major /\ a.minor = b.minor /\ a.patch < b.patch
  \/ /\ a.major = b.major /\ a.minor = b.minor /\ a.patch = b.patch
     /\ C5_PreLess(a.pre, b.pre)

\* both versions are valid and the resolved one is strictly greater
C5_Newer ==
  /\ SemverValid(options.version)
  /\ SemverValid(latestVersion)
  /\ C5_Precedes(SemverParse(options.version), SemverParse(latestVersion))

\* C5: the run proceeds past the version decision if and only if the
\* running version and the resolved channel version are both valid and the
\* resolved one is strictly greater under semantic-version precedence; in
\* every other case the run ends with no update.
C5_VersionDecision ==
  /\ pc = "policy" => C5_Newer
  /\ DidWith("decide", "update") <=> Did("decide") /\ C5_Newer
  /\ DidWith("decide", "no-update") =>
       /\ pc \in {"outerFinally", "done"}
       /\ versionInfo = {}
       /\ notified = <<>>
       /\ ~Did("temp-paths")

\* the decision between two pre-releases of one version, the greater resolved
C5_Witness ==
  /\ pc = "policy"
  /\ options.version = V_1_1_0_beta_1
  /\ latestVersion = V_1_1_0_beta_2

\* ---- C6 ----

\* C6: for a non-dry-run invocation with interval I > 0 and a recorded
\* prior check at T > 0, a gate evaluated at t < T + I skips the run without
\* a registry call, and a gate evaluated at t >= T + I lets the check happen.
C6_GateBoundary ==
  ( /\ gate.at > 0
    /\ ~options.dryRun
    /\ options.updateCheckIntervalMs > 0
    /\ gate.readable
    /\ PriorTimestamp > 0 ) =>
    IF gate.at < PriorTimestamp + options.updateCheckIntervalMs
    THEN gate.skipped /\ ~Did("registry") /\ pc \in {"outerFinally", "done"}
    ELSE ~gate.skipped /\ (pc = "done" => Did("registry"))

\* a check performed exactly one interval after the recorded one
C6_Witness ==
  /\ pc = "done"
  /\ ~options.dryRun
  /\ options.updateCheckIntervalMs > 0
  /\ gate.readable
  /\ PriorTimestamp > 0
  /\ gate.at = PriorTimestamp + options.updateCheckIntervalMs
  /\ Did("registry")

\* ---- C7 ----

\* C7: the gate skips only when dryRun is false, the interval is positive,
\* a prior timestamp exists (the store is readable and holds a positive
\* value for the package) and less than the interval has elapsed; a run
\* that the gate does not skip goes on to the registry fetch.
C7_GateSkipsOnlyWhen ==
  gate.at > 0 =>
    /\ gate.skipped <=>
         /\ ~options.dryRun
         /\ options.updateCheckIntervalMs > 0
         /\ gate.readable
         /\ PriorTimestamp > 0
         /\ gate.at - PriorTimestamp < options.updateCheckIntervalMs
    /\ pc = "done" /\ ~gate.skipped => Did("registry")

\* a dry run that asks the registry although a check was just recorded
C7_Witness ==
  /\ pc = "done"
  /\ options.dryRun
  /\ options.updateCheckIntervalMs > 0
  /\ PriorTimestamp > 0
  /\ gate.at - PriorTimestamp < options.updateCheckIntervalMs
  /\ Did("registry")

\* ---- C8 ----

\* C8: the timestamp is recorded when a check is initiated: once an
\* invocation has passed the gate at time t with a writable store, no later
\* non-dry-run invocation with interval I > 0 passes the gate before t + I,
\* however the first one ended, and a skipped invocation makes no registry
\* call.
C8_StampAtInitiation ==
  /\ ( /\ pc = "stamp"
       /\ ~options.dryRun
       /\ options.updateCheckIntervalMs > 0
       /\ gate.readable
       /\ lastInitiated > 0 ) =>
       gate.at >= lastInitiated + options.updateCheckIntervalMs
  /\ gate.skipped => ~Did("registry")

\* a second invocation skipped within the interval of a first one that failed
C8_Witness ==
  /\ pc = "done"
  /\ runs = 2
  /\ ended[1] = "failed"
  /\ gate.skipped
  /\ lastInitiated > 0
  /\ gate.at < lastInitiated + options.updateCheckIntervalMs
  /\ ~Did("registry")

\* ---- C9 ----

\* C9: when a recognized CI variable is set to a non-empty value and
\* skipOnCI is true (the default), the whole check is bypassed: no registry
\* call, no read or write of the timestamp store, no notification. When
\* skipOnCI is false, the run always reaches the interval gate.
C9_CISkip ==
  /\ pc \notin {"idle", "ci"} /\ options.skipOnCI /\ CISet =>
       /\ log = <<>>
       /\ notified = <<>>
       /\ Files = atStart
       /\ gate.at = 0
       /\ pc \in {"outerFinally", "done"}
  /\ pc = "done" /\ ~options.skipOnCI => gate.at > 0

\* a run bypassed for GITHUB_ACTIONS alone, with skipOnCI omitted
C9_Witness ==
  /\ pc = "done"
  /\ opts.skipOnCI = {}
  /\ env["GITHUB_ACTIONS"] # ""
  /\ \A v \in CIVars \ {"GITHUB_ACTIONS"} : env[v] = ""
  /\ log = <<>>

\* ---- C10 ----

\* the steps of the download, extract, backup and replace stages
C10_UpdateSteps ==
  {"temp-paths", "download", "tarball-written", "info:dry-download",
   "extract", "info:dry-extract", "backup-pass", "copy-pass", "cleanup"}

\* C10: when the newer version's policy has needReinstall = true, the run
\* creates no scratch paths and does not download, extract, back up or
\* replace; after the policy extraction it only issues one notification
\* that carries needReinstall = true (presented as a log line in a dry run).
C10_ReinstallOnly ==
  versionInfo # {} /\ The(versionInfo).upgear.needReinstall =>
    /\ updatePaths = {}
    /\ \A ev \in C10_UpdateSteps : ~Did(ev)
    /\ install = atStart.install
    /\ tarballs = atStart.tarballs
    /\ extractDirs = atStart.extractDirs
    /\ pc \in {"reinstall", "outerCatch", "outerFinally", "done"}
    /\ pc = "reinstall" => notified = <<>>
    /\ pc # "reinstall" =>
         /\ Len(notified) = 1
         /\ notified[1].needReinstall
         /\ notified[1].version = latestVersion
         /\ notified[1].via = "logged" <=> options.dryRun

\* a finished run that only notified of the reinstall
C10_Witness ==
  /\ pc = "done"
  /\ versionInfo # {}
  /\ The(versionInfo).upgear.needReinstall
  /\ Len(notified) = 1
  /\ notified[1].via \in {"default", "custom"}
  /\ notified[1].needReinstall

\* ---- C11 ----

\* the declared paths of the resolved policy
Declared == The(versionInfo).upgear.files

\* what the replace pass reads for each declared path: the payload of the
\* archive this run downloaded
Payload == SourceBase(The(served))

\* node holds what the replace of src leaves: the regular file itself, or
\* for a directory every entry of src
Holds(node, src) ==
  IF IsDirectory(src)
  THEN IsDirectory(node) /\ \A ch \in Children :
                              src.e[ch] # "" => node.e[ch] = src.e[ch]
  ELSE node = FileNode(src.c)

\* the steps of an update, in the order of the claim
C11_Order ==
  <<Event("download", "ok"), Event("tarball-written", ""),
    Event("extract", "ok"), Event("backup-pass", ""), Event("copy-pass", ""),
    Event("notify", "default"), Event("cleanup", "")>>

C11_Steps == {C11_Order[i].ev : i \in DOMAIN C11_Order}

C11_Failures ==
  {"warn:update-error", "warn:check-error", "warn:backup", "warn:copy",
   "warn:cleanup"}

\* a run that changes files, in which nothing has failed so far and whose
\* scratch paths did not exist before it
C11_Clean ==
  /\ pc # "idle"
  /\ ~options.dryRun
  /\ faults = 0
  /\ exc = ""
  /\ \A ev \in C11_Failures : ~Did(ev)
  /\ updatePaths # {} =>
       /\ Key \notin DOMAIN atStart.tarballs
       /\ Key \notin DOMAIN atStart.extractDirs

C12_BackupBeforeOverwrite ==
  \A q \in Paths :
    /\ DidWith("copy", q)
    /\ Exists(atStart.install[q])
    /\ ~DidWith("warn:backup", q)
    => Holds(install[Bak(q)], atStart.install[q])

\* a directory listed twice was overwritten, with its backup taken over a
\* stale backup
C12_Witness ==
  /\ pc = "notify"
  /\ Declared = <<"dist", "package.json", "dist">>
  /\ atStart.install["dist.bak"] = DirNode([ch \in Children |-> "stale"])
  /\ DidWith("copy", "dist")
  /\ install["dist"].e["a.js"] = "new"
  /\ install["dist.bak"] = atStart.install["dist"]

\* C12 as the claim states it: whenever the replace pass has overwritten a
\* declared path that existed before the run, `<path>.bak` holds the
\* path's content of before the run.
C12_AsStated ==
  \A q \in Paths :
    DidWith("copy", q) /\ Exists(atStart.install[q])
    => Holds(install[Bak(q)], atStart.install[q])

\* ---- C13 ----

\* the arguments of the events of log that are among evs, in order
Attempts(evs) ==
  LET hits == SelectSeq(log, LAMBDA e : e.ev \in evs)
  IN [k \in 1..Len(hits) |-> hits[k].arg]

\* C13: a failure while one declared path is backed up or replaced is
\* logged and stops nothing: once the replace pass is over, every declared
\* path that existed has had its backup attempted and every declared path
\* its replace, in the order of the list, no exception is in flight, and
\* every path whose replace did not fail holds the new content, whatever
\* happened to the other paths (nothing is rolled back).
C13_Isolation ==
  Did("copy-pass") /\ ~options.dryRun =>
    /\ Attempts({"backup", "warn:backup"}) =
         SelectSeq(Declared, LAMBDA q : Exists(atStart.install[q]))
    /\ Attempts({"copy", "warn:copy", "warn:source-missing"}) = Declared
    /\ pc = "notify" => exc = ""
    /\ \A q \in Paths :
         DidWith("copy", q) /\ ~DidWith("warn:copy", q) /\ served # {}
         => Holds(install[q], Payload[q])

\* the replace of the first path failed, the second path was still
\* replaced and the run went on to the notification
C13_Witness ==
  /\ pc = "notify"
  /\ Len(Declared) >= 3
  /\ DidWith("warn:copy", Declared[1])
  /\ DidWith("copy", Declared[2])
  /\ install[Declared[1]] = atStart.install[Declared[1]]
  /\ install[Declared[2]] = FileNode("new")

\* ---- C14 ----

\* the run is ending without having downloaded, changed a file or notified
EndsQuietly ==
  /\ pc \in {"outerFinally", "done"}
  /\ updatePaths = {}
  /\ \A ev \in C10_UpdateSteps : ~Did(ev)
  /\ install = atStart.install
  /\ tarballs = atStart.tarballs
  /\ extractDirs = atStart.extractDirs
  /\ notified = <<>>
  /\ outcome # "rejected"

\* C14: when the fetched metadata has a dist-tags mapping without an entry
\* for the requested channel ('latest' when none is requested), the run
\* ends with a warning: no version comparison, no policy extraction, no
\* download, no file change, no notification.
C14_MissingChannel ==
  /\ metadata # {}
  /\ The(metadata).distTags # {}
  /\ options.channel \notin DOMAIN The(The(metadata).distTags)
  /\ pc # "channel"
  => /\ Did("warn:no-channel")
     /\ ~Did("decide")
     /\ ~Did("warn:invalid-version")
     /\ latestVersion = <<>>
     /\ versionInfo = {}
     /\ exc = ""
     /\ EndsQuietly

\* the channel 'next' was requested from a registry that only has 'latest'
C14_Witness ==
  /\ pc = "done"
  /\ opts.channel = {"next"}
  /\ metadata # {}
  /\ The(metadata).distTags # {}
  /\ DOMAIN The(The(metadata).distTags) = {"latest"}
  /\ Did("warn:no-channel")

\* ---- C15 ----

\* the record of the resolved version lacks policy data: no record, no
\* archive URL, or no update-policy object
C15_Lacking ==
  LET doc == The(metadata) IN
  \/ doc.versions = {}
  \/ latestVersion \notin DOMAIN The(doc.versions)
  \/ LET rec == The(doc.versions)[latestVersion] IN
     \/ rec.dist = {}
     \/ The(rec.dist).tarball = {}
     \/ rec.upgear = {}

\* C15: when the resolved newer version has no record in 'versions', or
\* its record has no dist.tarball, or no upgear object, the run ends with
\* a warning: no download, no file change, no notification, and no error
\* reaches the caller.
C15_MissingPolicy ==
  /\ DidWith("decide", "update")
  /\ pc # "policy"
  /\ C15_Lacking
  => /\ Did("warn:no-policy")
     /\ versionInfo = {}
     /\ exc = ""
     /\ ~Did("warn:check-error")
     /\ EndsQuietly

\* a finished run for a release whose record carries an archive URL and no
\* update policy
C15_Witness ==
  /\ pc = "done"
  /\ outcome = "returned"
  /\ Did("warn:no-policy")
  /\ metadata # {}
  /\ The(metadata).versions # {}
  /\ latestVersion \in DOMAIN The(The(metadata).versions)
  /\ The(The(metadata).versions)[latestVersion].dist = GoodDist
  /\ The(The(metadata).versions)[latestVersion].upgear = {}

\* ---- C16 ----

\* C16: a status that is not a success, a network failure, a timeout or a
\* malformed JSON body in the metadata fetch gives 'no metadata' and
\* nothing is thrown; the run ends with a warning, without scratch paths,
\* download, file change or notification.
C16_RegistryFailure ==
  \A st \in {"http", "network", "timeout", "badjson"} :
    DidWith("warn:fetch", st) =>
      /\ metadata = {}
      /\ Did("warn:no-metadata")
      /\ ~Did("decide")
      /\ ~Did("warn:check-error")
      /\ exc = ""
      /\ EndsQuietly

\* a finished run whose metadata body was not JSON
C16_Witness ==
  /\ pc = "done"
  /\ outcome = "returned"
  /\ DidWith("warn:fetch", "badjson")
  /\ Did("warn:no-metadata")
  /\ metadata = {}

\* ---- C17 ----

C18_Order ==
  <<"info:dry-download", "info:dry-extract", "backup-pass", "copy-pass",
    "info:dry-notify">>

\* a dry run of an update (newer version, needReinstall = false) with an
\* installation directory, which has reached its notification
C18_DryUpdate ==
  /\ options.dryRun
  /\ options.installDir # {}
  /\ updatePaths # {}
  /\ Did("info:dry-notify")

\* what the scratch extraction directory of this run's name holds: nothing,
\* unless an earlier run left a directory of the same name behind
C18_Leftover ==
  SourceBase(IF Key \in DOMAIN extractDirs
             THEN extractDirs[Key] ELSE EmptyTree)

C19_Published ==
  The(The(The(metadata).versions)[latestVersion].upgear)

\* C19: when a run that is not a dry run notifies, it notifies once. With
\* onDisplay supplied the callback is called in place of the console
\* presentation, otherwise the console presentation is used; either way
\* with the version the channel resolves to, the requested package name,
\* the policy's needReinstall (false when absent) and the policy's changelog
\* URL. The console presentation prints the version and the package name,
\* and the changelog URL when there is one and no reinstall is required.
C19_Payload ==
  ~options.dryRun /\ notified # <<>> =>
    LET n == notified[1] IN
    /\ Len(notified) = 1
    /\ Len(Attempts({"notify"})) = 1
    /\ n.version = The(The(metadata).distTags)[options.channel]
    /\ n.packageName = opts.name
    /\ n.needReinstall = (C19_Published.needReinstall = {TRUE})
    /\ n.changelogUrl = C19_Published.changelogUrl
    /\ opts.onDisplay # {} =>
         n.via = "custom" /\ n.printed = {} /\ Attempts({"notify"}) = <<"custom">>
    /\ opts.onDisplay = {} =>
         /\ n.via = "default"
         /\ Attempts({"notify"}) = <<"default">>
         /\ {"version", "packageName"} \subseteq n.printed
         /\ "changelogUrl" \in n.printed
              <=> n.changelogUrl # {} /\ ~n.needReinstall

\* onDisplay was called after an update from the channel 'next', whose
\* policy says needReinstall: false and has a changelog URL
C19_Witness ==
  /\ pc = "done"
  /\ ~options.dryRun
  /\ opts.onDisplay = {"ok"}
  /\ opts.channel = {"next"}
  /\ Did("copy-pass")
  /\ Len(notified) = 1
  /\ notified[1].via = "custom"
  /\ notified[1].version = V_1_1_0
  /\ C19_Published.needReinstall = {FALSE}
  /\ notified[1].changelogUrl = {ChangelogUrl}

\* ---- C20 ----

\* the positions at which an invocation waits for a response body, with no
\* timer armed
BodyWaits == {"fetchBody", "downloadBody"}

C21_Expected ==
  [registryBase |-> IF opts.registryBase = {}
                    THEN "https://registry.npmjs.org"
                    ELSE The(opts.registryBase),
   channel |-> IF opts.channel = {} THEN "latest" ELSE The(opts.channel),
   skipOnCI |-> IF opts.skipOnCI = {} THEN TRUE ELSE The(opts.skipOnCI),
   updateCheckIntervalMs |-> IF opts.updateCheckIntervalMs = {}
                             THEN 21600000
                             ELSE The(opts.updateCheckIntervalMs),
   dryRun |-> IF opts.dryRun = {} THEN FALSE ELSE The(opts.dryRun)]

\* C21: every omitted option takes its default and every supplied option is
\* used as supplied (skipOnCI = false, dryRun = true/false and an interval
\* of 0 included), and the run acts on these values: the CI check on
\* skipOnCI, the gate on dryRun and the interval, the timestamp write on
\* dryRun, the request on registryBase, the channel lookup on channel.
C21_Defaults ==
  pc # "idle" =>
    LET e == C21_Expected IN
    /\ \A f \in DOMAIN e : options[f] = e[f]
    /\ pc \notin {"ci"} =>
         /\ (e.skipOnCI /\ CISet) =>
              /\ pc \in {"outerFinally", "done"}
              /\ log = <<>>
         /\ ~(e.skipOnCI /\ CISet) /\ pc # "gate" => gate.at > 0
    /\ gate.evaluated <=>
         /\ gate.at > 0
         /\ ~e.dryRun
         /\ e.updateCheckIntervalMs > 0
    /\ gate.skipped <=>
         /\ gate.evaluated
         /\ gate.recorded > 0
         /\ gate.at - gate.recorded < e.updateCheckIntervalMs
    /\ Did("store-write") => ~e.dryRun
    /\ e.dryRun => Files = atStart
    /\ ~e.dryRun /\ Did("registry") => Did("store-write")
    /\ Did("registry") => DidWith("registry", e.registryBase)
    /\ latestVersion # <<>> =>
         latestVersion = The(The(metadata).distTags)[e.channel]

\* a run with skipOnCI = false, an interval of 0 and dryRun = false, on CI,
\* that went to the default registry and resolved the channel 'next'
C21_Witness ==
  /\ pc = "done"
  /\ opts.skipOnCI = {FALSE}
  /\ opts.updateCheckIntervalMs = {0}
  /\ opts.dryRun = {FALSE}
  /\ opts.registryBase = {}
  /\ opts.channel = {"next"}
  /\ CISet
  /\ DidWith("registry", "https://registry.npmjs.org")
  /\ latestVersion = V_1_1_0
  /\ Did("copy-pass")

\* ---- C22 ----

\* the archive download of this run failed
C22_DownloadFailed ==
  \E i \in 1..Len(log) : log[i].ev = "download" /\ log[i].arg # "ok"

C23_ExtractedNothing ==
  /\ Did("extract")
  /\ ~DidWith("extract", "failed")
  /\ ~DidWith("extract", "no-dir")
  /\ served = {EmptyTree}
  /\ Key \in DOMAIN atStart.extractDirs
       => atStart.extractDirs[Key] = EmptyTree

C24_Extracted ==
  MergeTree(IF Key \in DOMAIN atStart.extractDirs
            THEN atStart.extractDirs[Key] ELSE EmptyTree,
            IF options.dryRun THEN EmptyTree ELSE The(served))

\* the root the claim names: the folder 'package' when it exists and is a
\* directory, the extraction root otherwise
C24_Root ==
  IF C24_Extracted.wrapper = "dir"
  THEN C24_Extracted.pkg ELSE C24_Extracted.root

\* C24: the replace pass reads every declared path from the folder
\* 'package' of the extraction directory when that folder exists and is a
\* directory, and from the extraction root otherwise (no such entry, a
\* regular file of that name, or a folder of another name). A declared
\* path that is absent under that root is logged as missing and its
\* destination stays as it was; a path that is present is replaced with
\* what that root holds (or, in a dry run, logged as intended).
C24_SourceRoot ==
  Did("copy-pass") =>
    /\ Attempts({"warn:source-missing"}) =
         SelectSeq(Declared, LAMBDA q : ~Exists(C24_Root[q]))
    /\ Attempts({"copy", "warn:copy", "info:dry-copy"}) =
         SelectSeq(Declared, LAMBDA q : Exists(C24_Root[q]))
    /\ \A q \in Paths :
         /\ DidWith("warn:source-missing", q) => install[q] = atStart.install[q]
         /\ DidWith("copy", q) => Holds(install[q], C24_Root[q])

\* the archive has 'dist' at its root and not under 'package': the replace
\* pass found 'dist' missing and took 'package.json' from 'package'
C24_Witness ==
  /\ pc = "done"
  /\ served = {MixedArchive}
  /\ DidWith("warn:source-missing", "dist")
  /\ install["dist"] = atStart.install["dist"]
  /\ DidWith("copy", "package.json")
  /\ install["package.json"] = FileNode("new")

\* ---------------------------------------------------------------------
\* C25  Effective file list
\* ---------------------------------------------------------------------

\* the paths the published policy declares, none when it omits the list
C25_DeclaredByPolicy ==
  IF C19_Published.files = {} THEN <<>> ELSE The(C19_Published.files)

\* the set of the entries of a list
C25_Entries(list) == {list[i] : i \in DOMAIN list}

\* C25: for every update policy the file list used for backup and replace
\* is the two core paths 'dist' and 'package.json' followed by the paths
\* the policy declares, in their order and as often as they are declared:
\* it holds both core paths even when the policy declares no files or
\* omits them, every declared path and nothing else, is never empty, and
\* it is the list both passes walk.
C25_FileList ==
  versionInfo # {} =>
    /\ Declared = <<"dist", "package.json">> \o C25_DeclaredByPolicy
    /\ C25_Entries(Declared) =
         {"dist", "package.json"} \cup C25_Entries(C25_DeclaredByPolicy)
    /\ Len(Declared) >= 2
    /\ Did("copy-pass") =>
         /\ Attempts({"backup", "warn:backup"}) =
              SelectSeq(Declared, LAMBDA q : Exists(atStart.install[q]))
         /\ Attempts({"copy", "warn:copy", "warn:source-missing"}) = Declared

\* a policy that declares 'bin' and 'dist': the list has 'dist' twice, and
\* the replace pass has walked it
C25_Witness ==
  /\ pc = "done"
  /\ C19_Published.files = {<<"bin", "dist">>}
  /\ Declared = <<"dist", "package.json", "bin", "dist">>
  /\ Attempts({"copy"}) = Declared

\* C25 as the claim states it: the file list has no repeated entries.
C25_AsStated ==
  versionInfo # {} =>
    \A i, j \in DOMAIN Declared : Declared[i] = Declared[j] => i = j

\* ---------------------------------------------------------------------
\* C26  Replace semantics per path
\* ---------------------------------------------------------------------

\* the directory that holds q is a regular file when the run starts
C26_Blocked(q) ==
  q = "lib/cli.js" /\ atStart.install["lib"].k = "file"

\* the source of q is a regular file and its destination a directory
C26_Onto(q) ==
  /\ C24_Root[q].k = "file"
  /\ atStart.install[q].k = "dir"

\* C26: once the replace pass of a run that is not a dry run is over, for
\* every declared path whose source is in the archive: a source directory
\* onto a destination directory is deep-merged (every source entry
\* overwrites its counterpart, destination-only entries stay); a source
\* directory onto a regular file, or onto nothing, leaves exactly the
\* source directory; a source regular file onto a regular file, or onto
\* nothing, leaves the source's content; a missing directory of the
\* destination has been created. A source regular file onto a destination
\* directory, and a destination whose directory is a regular file, fail
\* with a warning and leave the destination as it was.
C26_Replace ==
  Did("copy-pass") /\ ~options.dryRun =>
    \A q \in C25_Entries(Declared) :
      LET src == C24_Root[q]
          before == atStart.install[q]
      IN Exists(src) =>
           /\ DidWith("copy", q) # DidWith("warn:copy", q)
           /\ C26_Blocked(q) \/ C26_Onto(q) =>
                DidWith("warn:copy", q) /\ install[q] = before
           /\ faults = 0 /\ ~C26_Blocked(q) /\ ~C26_Onto(q) =>
                DidWith("copy", q)
           /\ DidWith("copy", q) =>
                /\ src.k = "dir" /\ before.k = "dir" =>
                     /\ install[q].k = "dir"
                     /\ \A ch \in Children :
                          install[q].e[ch] = IF src.e[ch] # "" THEN src.e[ch]
                                             ELSE before.e[ch]
                /\ src.k = "dir" /\ before.k # "dir" => install[q] = src
                /\ src.k = "file" => install[q] = FileNode(src.c)
                /\ q = "lib/cli.js" => install["lib"].k = "dir"

\* a finished update that merged 'dist', put the directory 'bin' in the
\* place of a regular file, and created 'lib' for 'lib/cli.js'
C26_Witness ==
  /\ pc = "done"
  /\ atStart.install = UpdatedInstall
  /\ Declared = <<"dist", "package.json", "bin", "lib/cli.js">>
  /\ install["dist"].e = [ch \in Children |->
                            IF ch = "a.js" THEN "new" ELSE "old"]
  /\ install["bin"] = NestedArchive.pkg["bin"]
  /\ install["lib"].k = "dir"
  /\ install["lib/cli.js"] = FileNode("new")

\* C26 as the claim states it: when nothing fails from outside and the
\* directory of the destination is not a regular file, a source that is a
\* regular file leaves its content at the destination.
C26_AsStated ==
  Did("copy-pass") /\ ~options.dryRun /\ faults = 0 =>
    \A q \in C25_Entries(Declared) :
      C24_Root[q].k = "file" /\ ~C26_Blocked(q) =>
        install[q] = FileNode(C24_Root[q].c)

\* ---------------------------------------------------------------------
\* C27  Backup semantics per path
\* ---------------------------------------------------------------------

C28_NothingToRead ==
  \/ atStart.store.kind \in {"absent", "garbage"}
  \/ ~gate.readable
  \/ options.name \notin DOMAIN atStart.store.data

\* the write of the timestamp was attempted and failed
C28_WriteFailed == DidWith("store-write", "failed")

\* what holds in every state
C28_Reads ==
  /\ gate.evaluated /\ C28_NothingToRead =>
       /\ lastCheckTime = 0
       /\ ~gate.skipped
       /\ pc = "stamp" => exc = ""
  /\ C28_WriteFailed =>
       /\ store \in {atStart.store, GarbageStore}
       /\ pc = "fetch" => exc = ""
       /\ pc # "fetch" => Did("registry")

\* the step of the gate raises nothing: it ends the run quietly or goes on
\* to the timestamp write
C28_ReadStep ==
  pc = "gate" /\ pc' # pc =>
    /\ pc' \in {"stamp", "outerFinally"}
    /\ exc' = ""

\* the step from the timestamp write to the fetch changes the store, the
\* log and nothing else of the run, whether or not the write fails (a dry
\* run does not write)
C28_WriteStep ==
  pc = "stamp" /\ pc' # pc =>
    /\ pc' = "fetch"
    /\ \/ options.dryRun /\ log' = log
       \/ ~options.dryRun /\ \E r \in {"ok", "failed"} :
                                log' = Append(log, Event("store-write", r))
    /\ store' # store =>
         /\ ~options.dryRun
         /\ \/ store' = ObjectStore(Put(LoadedData(store), options.name, now))
            \/ store' = GarbageStore /\ log'[Len(log')].arg = "failed"
    /\ UNCHANGED <<now, env, install, tarballs, extractDirs, opts,
                   lastCheckTime, metadata, latestVersion, versionInfo,
                   updatePaths, cleanup, exc, outcome, notified, gate>>

\* C28: reading the last check time gives 0 and raises nothing when the
\* store file is absent, unreadable, not valid JSON or without an entry
\* for the package, so the gate lets the run pass; a failure to create the
\* directory or to write the store is swallowed: the store stays as it
\* was and the run goes on to the registry fetch by the same step as after
\* a write that succeeded.
C28_StoreRobust ==
  []C28_Reads /\ [][C28_ReadStep]_vars /\ [][C28_WriteStep]_vars

\* a finished run on a store that is not JSON, whose timestamp write
\* failed and which went to the registry
C28_Witness ==
  /\ pc = "done"
  /\ gate.evaluated
  /\ gate.readable
  /\ C28_WriteFailed
  /\ store = atStart.store
  /\ store.kind = "garbage"
  /\ lastCheckTime = 0
  /\ Did("registry")

\* ---------------------------------------------------------------------
\* C29  Scratch paths of two invocations at the same time
\* ---------------------------------------------------------------------

\* a package name with every character that is not a letter or a digit
\* replaced by '_'
C29_Plain(name) ==
  CASE name \in {"my-cli", "my_cli"} -> "my_cli"
    [] name = "other-cli" -> "other_cli"

\* what the temporary directory holds at the scratch paths k: the archive
\* file and the extraction directory, each when it exists
C29_At(k) ==
  [tarball |-> IF k \in DOMAIN tarballs THEN {tarballs[k]} ELSE {},
   extractDir |-> IF k \in DOMAIN extractDirs THEN {extractDirs[k]} ELSE {}]

\* the same after the step
C29_After(k) ==
  [tarball |-> IF k \in DOMAIN tarballs' THEN {tarballs'[k]} ELSE {},
   extractDir |-> IF k \in DOMAIN extractDirs' THEN {extractDirs'[k]}
                  ELSE {}]

\* both invocations have their scratch paths, and they are the same paths
C29_SamePaths ==
  /\ updatePaths # {}
  /\ peer.paths # {}
  /\ updatePaths = peer.paths

\* the two invocations have the same scratch paths exactly when their
\* package names are equal up to the replaced characters, their versions
\* are equal and their paths were named in the same millisecond
C29_Naming ==
  updatePaths # {} /\ peer.paths # {} =>
    /\ \E t \in 1..now :
         Key = <<C29_Plain(options.name), The(versionInfo).version, t>>
    /\ C29_SamePaths <=>
         /\ C29_Plain(options.name) = C29_Plain(peer.name)
         /\ The(versionInfo).version = peer.version
         /\ Key[3] = peer.at

\* a step of one invocation leaves what is at the other's scratch paths as
\* it was, unless the two have the same paths
C29_Apart ==
  /\ peer' # peer /\ updatePaths # {} /\ updatePaths # peer'.paths =>
       C29_After(Key) = C29_At(Key)
  /\ pc' # pc /\ peer.paths # {} /\ updatePaths' # peer.paths =>
       C29_After(The(peer.paths)) = C29_At(The(peer.paths))

\* C29: two invocations at the same time have different scratch paths, and
\* neither uses, overwrites or deletes what is at the other's, whenever
\* their package names differ in more than the replaced characters, or
\* their versions differ, or they named their paths at different
\* milliseconds. Otherwise both have the same two paths.
C29_Exclusive == []C29_Naming /\ [][C29_Apart]_vars

\* both invocations have finished an update of the same version of
\* packages named alike; they named their paths at different times and the
\* first found its archive and its extraction as it left them
C29_Witness ==
  /\ pc = "done"
  /\ peer.pc = "done"
  /\ updatePaths # {}
  /\ peer.name = "my_cli"
  /\ peer.version = The(versionInfo).version
  /\ peer.at # Key[3]
  /\ DidWith("extract", "ok")
  /\ Attempts({"copy"}) = Declared
  /\ Did("cleanup")

\* C29 as the claim states it: what this run wrote to its scratch archive
\* is there when it extracts it, and what it extracted is there when it
\* replaces the files, whatever a second invocation does.
C29_AsStated ==
  /\ pc = "extract" =>
       Key \in DOMAIN tarballs /\ tarballs[Key] = The(served)
  /\ pc = "copy" =>
       Key \in DOMAIN extractDirs /\ extractDirs[Key] = The(served)

\* ---------------------------------------------------------------------
\* C30  One notification, after the update and before the cleanup
\* ---------------------------------------------------------------------

\* the positions in the log of the events named in evs
C30_Positions(evs) == {i \in 1..Len(log) : log[i].ev \in evs}

\* the notification, shown or (in a dry run) written to the log
C30_Shown == {"notify", "info:dry-notify"}

\* the run stops at a gate, at a short-circuit, or on a failure of the
\* download, of the extraction or of the installation directory
C30_Stops ==
  \/ options.skipOnCI /\ CISet /\ pc # "idle"
  \/ gate.skipped
  \/ Did("warn:no-metadata")
  \/ Did("warn:no-channel")
  \/ Did("warn:invalid-version")
  \/ DidWith("decide", "no-update")
  \/ Did("warn:no-policy")
  \/ C22_DownloadFailed
  \/ \E i \in 1..Len(log) : log[i].ev = "extract" /\ log[i].arg # "ok"
  \/ DidWith("warn:update-error", "AssertionError")

\* C30: an invocation issues at most one notification. When the policy
\* says needReinstall = false, the notification comes after the download,
\* after the extraction and after the replace pass has gone over every
\* declared path (each of them done, or logged as intended in a dry run),
\* and before the scratch paths are cleaned up. No notification is issued
\* in a run that stops at the CI check, at the interval gate, for missing
\* metadata, channel, version or policy, for a version that is not newer,
\* or on a failure of the download, of the extraction or of the
\* installation directory.
C30_OneNotification ==
  /\ Len(notified) <= 1
  /\ Cardinality(C30_Positions(C30_Shown)) = Len(notified)
  /\ C30_Stops => notified = <<>>
  /\ notified # <<>> /\ ~notified[1].needReinstall =>
       \A n \in C30_Positions(C30_Shown) :
         /\ \E i \in C30_Positions({"download", "info:dry-download"}) :
              i < n /\ log[i].arg \in {"ok", ""}
         /\ \E i \in C30_Positions({"extract", "info:dry-extract"}) :
              i < n /\ log[i].arg \in {"ok", ""}
         /\ \E i \in C30_Positions({"copy-pass"}) : i < n
         /\ Attempts({"copy", "warn:copy", "warn:source-missing",
                      "info:dry-copy"}) = Declared
         /\ \A i \in C30_Positions({"backup-pass", "backup", "warn:backup",
                                    "info:dry-backup", "copy", "warn:copy",
                                    "warn:source-missing", "info:dry-copy"}) :
              i < n
         /\ \A i \in C30_Positions({"cleanup", "warn:cleanup"}) : n < i
         /\ options.installDir # {}

\* a finished update in which the replace of a path failed: it was told to
\* the user once, after the replace pass and before the cleanup
C30_Witness ==
  /\ pc = "done"
  /\ Len(notified) = 1
  /\ ~notified[1].needReinstall
  /\ notified[1].via = "default"
  /\ Did("warn:copy")
  /\ Did("cleanup")
  /\ \E n \in C30_Positions({"notify"}), i \in C30_Positions({"cleanup"}) :
       n < i

\* ---------------------------------------------------------------------
\* C31  The success notification and what was replaced
\* ---------------------------------------------------------------------

\* the success notification was shown: by onDisplay or on the console,
\* with needReinstall = false
C31_Success ==
  /\ notified # <<>>
  /\ notified[1].via \in {"custom", "default"}
  /\ ~notified[1].needReinstall

\* the replace pass of a run that is not a dry run has returned and the
\* run has gone past the notification
C31_PassReturned ==
  /\ ~options.dryRun
  /\ Did("copy-pass")
  /\ pc # "notify"

C32_OnlyLogged ==
  options.dryRun =>
    /\ \A i \in 1..Len(notified) : notified[i].via = "logged"
    /\ ~Did("notify")
    /\ Did("info:dry-notify") <=> notified # <<>>

\* the step of a dry run that notifies, from the reinstall branch or after
\* the replace pass: it logs the intended notification, nothing else, and
\* returns normally whatever onDisplay would have done
C32_NotifyStep ==
  (options.dryRun /\ pc \in {"reinstall", "notify"} /\ notified' # notified) =>
    /\ log' = Append(log, Event("info:dry-notify", ""))
    /\ exc' = exc
    /\ pc' = IF pc = "reinstall" THEN "outerFinally" ELSE "innerFinally"
    /\ notified'[Len(notified')].needReinstall = (pc = "reinstall")

\* C32: in a dry run the notification is only logged as an intended
\* action: neither onDisplay nor the default console notification is
\* invoked, where a reinstall is required and after the replace pass.
C32_DryNotification == []C32_OnlyLogged /\ [][C32_NotifyStep]_vars

\* a dry run with an onDisplay callback that would throw has gone through
\* the replace pass, logged the notification and ended without an error
C32_Witness ==
  /\ pc = "done"
  /\ options.dryRun
  /\ options.onDisplay = {"throws"}
  /\ Did("copy-pass")
  /\ Len(notified) = 1
  /\ notified[1].via = "logged"
  /\ ~notified[1].needReinstall
  /\ exc = ""


\* ---------------------------------------------------------------------
\* C33  Timestamp store frame
\* ---------------------------------------------------------------------

\* the last check time the gate of package q would read from store st
C33_Entry(st, q) == ReadLastCheckTimestamp(st, q, FALSE)

\* stores after and before agree on every package but p
C33_SameOthers(after, before, p) ==
  \A q \in {Package, OtherPackage} \ {p} :
    C33_Entry(after, q) = C33_Entry(before, q)

\* the step in which the invocation records its check time
C33_Writes == pc = "stamp" /\ pc' = "fetch" /\ ~options.dryRun

\* that write failed after the file was opened: part of the text is left
C33_Torn ==
  /\ log'[Len(log')] = Event("store-write", "failed")
  /\ store' = GarbageStore

\* the step in which the invocation for the other package, in the second
\* process, writes the store
C33_PeerWrites == peer.pc = "loaded" /\ peer'.pc = "stamped"

\* what every step does to the store
C33_Step ==
  /\ store' # store => C33_Writes \/ C33_PeerWrites
  /\ C33_Writes /\ ~C33_Torn =>
       /\ C33_SameOthers(store', store, options.name)
       /\ log'[Len(log')] = Event("store-write", "ok") =>
            C33_Entry(store', options.name) = now
  /\ C33_PeerWrites /\ peer.data = LoadedData(store) =>
       /\ C33_SameOthers(store', store, peer.name)
       /\ C33_Entry(store', peer.name) = now

\* an invocation that ran alone and whose write was not cut short has
\* left the entries of the other packages as they were when it started
C33_Alone ==
  /\ pc = "done"
  /\ peer.pc # "stamped"
  /\ ~(DidWith("store-write", "failed") /\ store = GarbageStore)

C33_AfterInvocation ==
  C33_Alone => C33_SameOthers(store, atStart.store, options.name)

\* C33: recording the check time for package P changes P's entry only,
\* and the last check times of the other packages are what they were, when
\* the write is complete or fails before the file is opened and no other
\* invocation has written the store since this one read it. Nothing but
\* the recording step writes the store.
C33_Frame == []C33_AfterInvocation /\ [][C33_Step]_vars

\* an invocation for my-cli found the entry of other-cli in the store,
\* recorded its own check time and ended: both entries are in the store
C33_Witness ==
  /\ pc = "done"
  /\ peer.pc = "off"
  /\ DidWith("store-write", "ok")
  /\ atStart.store = ObjectStore([p \in {OtherPackage} |-> 1])
  /\ store.kind = "object"
  /\ DOMAIN store.data = {Package, OtherPackage}
  /\ store.data[OtherPackage] = 1
  /\ store.data[Package] = gate.at

\* C33 as the claim states it: whenever an invocation for a package
\* records its check time, the last check times of all other packages are
\* unchanged.
C33_WriteAsStated ==
  /\ C33_Writes => C33_SameOthers(store', store, options.name)
  /\ C33_PeerWrites => C33_SameOthers(store', store, peer.name)

C33_AsStated == [][C33_WriteAsStated]_vars

====
